---------------------------- MODULE Spec2Model ----------------------------
(***************************************************************************)
(* Verification model of the rtos messaging substrate:                     *)
(*   - MsgSchedulerTask (src/MsgSchedulerTask.hpp) running on the          *)
(*     RtosMsgBufferTask task loop (src/RtosMsgBufferTask.hpp);            *)
(*   - MsgBus / TopicBase / Topic<T> (src/include/MsgBus.hpp).             *)
(*                                                                         *)
(* The specifications, defined over one set of variables:                  *)
(*   Spec       the scheduler task, its callers and the clock;             *)
(*   LiveSpec   Spec with the task loop and the clock running;             *)
(*   BusSpec    the topic registry, subscriptions, writes and notify();    *)
(*   OrderSpec  one topic and the order of its three subscribers;          *)
(*   LockSpec   the bus calls of two tasks, step by step at each mutex;    *)
(*   AliasSpec  topics whose names have the same FNV-1a hash;              *)
(*   FrameSpec  the scheduler's requests as bytes in its message buffer;   *)
(*   LoopSpec   the timeout cadence of RtosMsgBufferTask::taskLoop         *)
(*              (src/include/RtosMsgBufferTask.hpp);                       *)
(*   RingSpec   RingBuffer (src/include/buffers/RingBuffer.hpp) beside a   *)
(*              reference queue;                                           *)
(*   DebounceSpec, EnvelopeSpec  the limit rules and the aggregator of     *)
(*              src/include/envelope/envelope.hpp.                         *)
(***************************************************************************)
EXTENDS Integers, Naturals, Sequences, FiniteSets, TLC

(***************************************************************************)
(* Bounds of the model.                                                    *)
(***************************************************************************)
MaxTime == 4        \* the clock runs from 0 to MaxTime
MaxDelay == 2       \* schedule() delays are drawn from 0..MaxDelay
MaxEntries == 2     \* number of SMsg objects the heap can hold
MaxCancels == 1     \* cancel requests the callers enqueue in one run
MaxValue == 1       \* payload values are drawn from 0..MaxValue

(***************************************************************************)
(* Program constants.                                                      *)
(***************************************************************************)
\* 0xffffffffUL, the all-ones uint32_t; written -1 because the integers here
\* are 32-bit signed.  No delay of the model reaches it.
RTOS_TASK_WAIT_FOREVER == -1
MSG_TASK_WAIT_FOREVER == -1

\* qByteSize of the scheduler's constructor, counted in the requests the
\* inbound buffer holds
ChanCap == 2

Null == 0                       \* nullptr
Handles == 1 .. MaxEntries      \* addresses operator new can return
Tasks == {"R"}                  \* IRtosMsgReceiver objects
Sizes == {0, 4}                 \* payload lengths passed to schedule()
\* The data pointers passed to schedule() with a length: a null pointer, or a
\* pointer to that many bytes
NullData == [null |-> TRUE, bytes |-> <<>>]
Payloads(size) ==
    {[null |-> FALSE, bytes |-> b] :
        b \in IF size = 4 THEN {<<7, 0, 0, 0>>} ELSE {<<>>}}
NoEntry == [alloc |-> FALSE]    \* an address holding no SMsg
\* An SMsg that left _list is not deleted and never read again: its address
\* stays allocated and its fields are dropped from the state.
Leaked == [alloc |-> TRUE, live |-> FALSE]

\* The SMsg* held by a sequence of SMsg*
Elems(s) == {s[i] : i \in 1 .. Len(s)}

VARIABLES
    now,              \* steady_clock, in milliseconds
    heap,             \* Handles -> SMsg object, or NoEntry
    _list,            \* MsgSchedulerTask::_list, a sequence of SMsg*
    _msgQueue,        \* RtosMsgBufferTask::_msgQueue, FIFO of QMsg<SchedulerCmd,SMsg*>
    _receiveTimeoutMs,\* RtosMsgBufferTask::_receiveTimeoutMs
    nCancels,         \* cancel requests enqueued so far
    waitStart,        \* time at which the pending _msgQueue.receive() was entered
    sends,            \* per one-shot SMsg: task->send calls made for it (counted to 2)
    lateSent,         \* SMsg* the last step sent later than their nextTime
    overtaken,        \* SMsg* pending with an earlier nextTime than one the last step sent
    cancelled,        \* SMsg* for which a cancel request has been handled
    lastSent,         \* SMsg* sent, in order, by the processQueue run of the last step
    lastBytes,        \* per send of lastSent: the bytes passed to task->send
    sendOk,           \* per send of lastSent: what task->send returned
    schedRes          \* the schedule() call that returned, or the request
                      \* handleMessage was given, in the last step

schedVars == <<now, heap, _list, _msgQueue, _receiveTimeoutMs, waitStart,
               sends, lateSent, overtaken, nCancels, cancelled, lastSent, sendOk,
               lastBytes, schedRes>>

VARIABLES
    topics_,          \* MsgBus::topics_, the map TopicId -> TopicBase*
    subscribers_,     \* per topic object: TopicBase::subscribers_
    data,             \* per topic object: the payload msg.data
    busRes,           \* the MsgBus or notify() call that returned in the last step
    notifyFrame       \* the activation of Topic::notify(), if one is running

busVars == <<topics_, subscribers_, data, busRes, notifyFrame>>

VARIABLES
    mutex_,           \* MsgBus::mutex_: the task that holds it, or Free
    subs_mtx_,        \* per topic object: the task that holds TopicBase::subs_mtx_, or Free
    stack,            \* per task: the activations of its bus calls, innermost last
    access,           \* the last read or write of a subscribers_ vector
    lockRes           \* the bus call that returned in the last step of a task

lockVars == <<mutex_, subs_mtx_, stack, access, lockRes>>

\* The components that stand beside the scheduler and the bus: the byte view
\* of the scheduler's buffer ("frame"), a task loop with a cadence ("loop"),
\* a RingBuffer ("ring") and an Envelope with its rules ("env").  objs maps
\* the name of each component that has been used to a record of its members;
\* a component not in it is as its constructor left it.
VARIABLE objs

libVars == <<objs>>

\* The component named n, new being its state after construction
Obj(n, new) == IF n \in DOMAIN objs THEN objs[n] ELSE new

\* The components after component n has become r
Put(n, r) == [k \in DOMAIN objs \cup {n} |-> IF k = n THEN r ELSE objs[k]]

\* A call on one of these components leaves the scheduler, the bus and the
\* locks as they are
LibRest == UNCHANGED <<schedVars, busVars, lockVars>>

vars == <<schedVars, busVars, lockVars, libVars>>

-----------------------------------------------------------------------------
(***************************************************************************)
(* Sequence helpers (std::list operations).                                *)
(***************************************************************************)
RemoveAt(s, i) == SubSeq(s, 1, i - 1) \o SubSeq(s, i + 1, Len(s))

\* A remove that erases nothing
ListRemoveNothing(s, v) == s

\* A remove that erases the front element along with those equal to value
ListRemoveAndFront(s, v) ==
    IF \E i \in 1 .. Len(s) : s[i] = v
    THEN SelectSeq(Tail(s), LAMBDA x : x # v) ELSE s

\* std::list::remove(value): erases every element equal to value
ListRemove(s, v) == SelectSeq(s, LAMBDA x : x # v)

RECURSIVE InsertSorted(_, _, _)
InsertSorted(s, h, hp) ==
    IF s = <<>> THEN <<h>>
    ELSE IF hp[h].nextTime < hp[Head(s)].nextTime
         THEN <<h>> \o s
         ELSE <<Head(s)>> \o InsertSorted(Tail(s), h, hp)

\* std::list::sort with comparator a->nextTime < b->nextTime (stable)
RECURSIVE ListSort(_, _)
ListSort(s, hp) ==
    IF s = <<>> THEN <<>>
    ELSE InsertSorted(ListSort(SubSeq(s, 1, Len(s) - 1), hp), s[Len(s)], hp)

-----------------------------------------------------------------------------
(***************************************************************************)
(* MsgSchedulerTask                                                        *)
(***************************************************************************)

\* sizeof(SMsg*), the size of an element of _list
sizeofPtr == 4

\* The object representation of a pointer: its address, least significant
\* byte first
PtrBytes(p) == [k \in 1 .. sizeofPtr |-> (p \div (256 ^ (k - 1))) % 256]

\* The len bytes that send(&(*it), len) reads, it being at position i of the
\* list: they start at the list element, which is the SMsg* itself
SendArg(lst, i, len) == SubSeq(PtrBytes(lst[i]), 1, len)

\* The state processQueue leaves behind: the heap, the list, the sends it made
\* (sent: the SMsg* in order; fired: each with the nextTime it had when sent)
PQ(hp, lst, sent, fired) ==
    [heap |-> hp, list |-> lst, sent |-> sent, fired |-> fired]

\* A loop that sends a due one-shot entry and leaves it in the list
RECURSIVE processLoopKeepsOneShot(_, _, _, _, _, _)
processLoopKeepsOneShot(hp, lst, i, sent, fired, current) ==
    IF i > Len(lst) \/ hp[lst[i]].nextTime > current
    THEN PQ(hp, lst, sent, fired)
    ELSE LET h == lst[i]
             f == Append(fired,
                    [h |-> h, due |-> hp[h].nextTime, periodic |-> hp[h].periodic,
                     earlier |-> {g \in Elems(lst) :
                                    hp[g].nextTime < hp[h].nextTime},
                     bytes |-> SendArg(lst, i, hp[h].size), given |-> hp[h].data])
         IN
         processLoopKeepsOneShot(
             IF hp[h].periodic
             THEN [hp EXCEPT ![h].nextTime = current + hp[h].period] ELSE hp,
             lst, i + 1, Append(sent, h), f, current)

\* The loop of processQueue: walk from position i while the entry is due
RECURSIVE processLoop(_, _, _, _, _, _)
processLoop(hp, lst, i, sent, fired, current) ==
    IF i > Len(lst) \/ hp[lst[i]].nextTime > current
    THEN PQ(hp, lst, sent, fired)
    ELSE LET h == lst[i]
             f == Append(fired,
                    [h |-> h, due |-> hp[h].nextTime, periodic |-> hp[h].periodic,
                     earlier |-> {g \in Elems(lst) :
                                    hp[g].nextTime < hp[h].nextTime},
                     bytes |-> SendArg(lst, i, hp[h].size), given |-> hp[h].data])
         IN
         IF hp[h].periodic
         THEN processLoop([hp EXCEPT ![h].nextTime = current + hp[h].period],
                          lst, i + 1, Append(sent, h), f, current)
         ELSE processLoop([hp EXCEPT ![h] = Leaked],
                          RemoveAt(lst, i), i, Append(sent, h), f, current)

\* The timeout processQueue hands to receiveTimeout()
nextTimeout(hp, lst, current) ==
    IF lst # <<>>
    THEN IF hp[Head(lst)].nextTime > current
         THEN hp[Head(lst)].nextTime - current
         ELSE 0
    ELSE RTOS_TASK_WAIT_FOREVER

\* processQueue: fire the due entries, then set the receive timeout
processQueue(hp, lst, current) ==
    LET r == processLoop(hp, lst, 1, <<>>, <<>>, current)
    IN  [heap |-> r.heap, list |-> r.list, sent |-> r.sent, fired |-> r.fired,
         timeout |-> nextTimeout(r.heap, r.list, current)]

\* handleMessage: apply the request, run processQueue, then sort the list
handleMessage(hp, lst, msg, current) ==
    LET l1 == IF msg.cmd = "add" THEN Append(lst, msg.data)
              ELSE ListRemove(lst, msg.data)
        h1 == [h \in Handles |->
                 IF h \in Elems(lst) \ Elems(l1) THEN Leaked ELSE hp[h]]
        r  == processQueue(h1, l1, current)
    IN  [r EXCEPT !.list = ListSort(r.list, r.heap)]

\* handleTimeout: run processQueue
handleTimeout(hp, lst, current) == processQueue(hp, lst, current)

\* sends after the sends of one processQueue run
RECURSIVE CountSends(_, _)
CountSends(cnt, fired) ==
    IF fired = <<>> THEN cnt
    ELSE CountSends(IF Head(fired).periodic THEN cnt
                    ELSE [cnt EXCEPT ![Head(fired).h] = IF @ < 2 THEN @ + 1 ELSE 2],
                    Tail(fired))

\* per send of one processQueue run: the bytes passed to task->send, and the
\* payload schedule() was handed for the entry
BytesOf(fired) ==
    [i \in 1 .. Len(fired) |-> [bytes |-> fired[i].bytes, given |-> fired[i].given]]

\* the SMsg* that were pending with an earlier nextTime when another was sent
OvertakenOf(fired) == UNION {fired[i].earlier : i \in 1 .. Len(fired)}

\* the SMsg* a processQueue run at time current sent after their nextTime
LateOf(fired, current) ==
    {fired[i].h : i \in {j \in 1 .. Len(fired) : fired[j].due < current}}

\* operator new: an address that holds no object
FreeHandles == {h \in Handles : ~heap[h].alloc}
NewHandle == CHOOSE h \in FreeHandles : \A g \in FreeHandles : h <= g

\* RtosMsgBufferTask::send on the scheduler's own buffer
CanSend == Len(_msgQueue) < ChanCap

\* The last step was no call and no handleMessage
NoCall == [op |-> "none"]

\* schedule() returned ret; valid: data was not null and size not 0; sent:
\* whether the add request was enqueued (FALSE also when none was made)
ScheduleRes(buf, size, sent, ret) ==
    [op |-> "schedule", valid |-> ~(buf.null \/ size = 0), sent |-> sent,
     ret |-> ret]

\* handleMessage was given the request msg
HandleRes(msg) == [op |-> "handleMessage", msg |-> msg]

SchedInit ==
    /\ schedRes = NoCall
    /\ now = 0
    /\ heap = [h \in Handles |-> NoEntry]
    /\ _list = <<>>
    /\ _msgQueue = <<>>
    /\ _receiveTimeoutMs = RTOS_TASK_WAIT_FOREVER
    /\ waitStart = 0
    /\ nCancels = 0
    /\ sends = [h \in Handles |-> 0]
    /\ lateSent = {}
    /\ overtaken = {}
    /\ cancelled = {}
    /\ lastSent = <<>>
    /\ sendOk = <<>>
    /\ lastBytes = <<>>

\* A schedule() without the test of data and size
ScheduleNoCheck(task, buf, size, delay, periodic) ==
    /\ FreeHandles # {}
    /\ LET smsg == NewHandle
           obj  == [alloc |-> TRUE, live |-> TRUE, task |-> task,
                    period |-> delay,
                    nextTime |-> now + delay, periodic |-> periodic,
                    size |-> size, data |-> buf.bytes]
       IN  IF CanSend
           THEN /\ heap' = [heap EXCEPT ![smsg] = obj]
                /\ _msgQueue' = Append(_msgQueue, [cmd |-> "add", data |-> smsg])
                /\ schedRes' = ScheduleRes(buf, size, TRUE, smsg)
           ELSE /\ schedRes' = ScheduleRes(buf, size, FALSE, Null)
                /\ UNCHANGED <<heap, _msgQueue>>
    /\ lastSent' = <<>>
    /\ sendOk' = <<>>
    /\ lastBytes' = <<>>
    /\ lateSent' = {}
    /\ overtaken' = {}
    /\ UNCHANGED <<now, _list, _receiveTimeoutMs, waitStart, sends, nCancels,
                   cancelled>>

\* A schedule() that does not delete the entry when the send fails
ScheduleKeepsOnFull(task, buf, size, delay, periodic) ==
    IF buf.null \/ size = 0
    THEN /\ schedRes' = ScheduleRes(buf, size, FALSE, Null)
         /\ lastSent' = <<>>
         /\ sendOk' = <<>>
         /\ lastBytes' = <<>>
         /\ lateSent' = {}
         /\ overtaken' = {}
         /\ UNCHANGED <<now, heap, _list, _msgQueue, _receiveTimeoutMs, waitStart,
                        nCancels, sends, cancelled>>
    ELSE /\ FreeHandles # {}
         /\ LET smsg == NewHandle
                obj  == [alloc |-> TRUE, live |-> TRUE, task |-> task,
                         period |-> delay,
                         nextTime |-> now + delay, periodic |-> periodic,
                         size |-> size, data |-> buf.bytes]
            IN  /\ heap' = [heap EXCEPT ![smsg] = obj]
                /\ IF CanSend
                   THEN /\ _msgQueue' = Append(_msgQueue,
                                               [cmd |-> "add", data |-> smsg])
                        /\ schedRes' = ScheduleRes(buf, size, TRUE, smsg)
                   ELSE /\ schedRes' = ScheduleRes(buf, size, FALSE, Null)
                        /\ UNCHANGED _msgQueue
         /\ lastSent' = <<>>
         /\ sendOk' = <<>>
         /\ lastBytes' = <<>>
         /\ lateSent' = {}
         /\ overtaken' = {}
         /\ UNCHANGED <<now, _list, _receiveTimeoutMs, waitStart, sends, nCancels,
                        cancelled>>

\* schedule(task, data, size, delay, periodic); buf is the argument data.
\* SMsg has no member for the bytes at data, and the field data of the model's
\* entry only remembers what the call was handed
Schedule(task, buf, size, delay, periodic) ==
    IF buf.null \/ size = 0
    THEN \* return nullptr
         /\ schedRes' = ScheduleRes(buf, size, FALSE, Null)
         /\ lastSent' = <<>>
         /\ sendOk' = <<>>
         /\ lastBytes' = <<>>
         /\ lateSent' = {}
         /\ overtaken' = {}
         /\ UNCHANGED <<now, heap, _list, _msgQueue, _receiveTimeoutMs, waitStart,
                        nCancels, sends, cancelled>>
    ELSE /\ FreeHandles # {}
         /\ LET smsg == NewHandle
                obj  == [alloc |-> TRUE, live |-> TRUE, task |-> task,
                         period |-> delay,
                         nextTime |-> now + delay, periodic |-> periodic,
                         size |-> size, data |-> buf.bytes]
            IN  IF CanSend
                THEN /\ heap' = [heap EXCEPT ![smsg] = obj]
                     /\ _msgQueue' = Append(_msgQueue, [cmd |-> "add", data |-> smsg])
                     /\ schedRes' = ScheduleRes(buf, size, TRUE, smsg)
                ELSE \* delete smsg; return nullptr
                     /\ schedRes' = ScheduleRes(buf, size, FALSE, Null)
                     /\ UNCHANGED <<heap, _msgQueue>>
         /\ lastSent' = <<>>
         /\ sendOk' = <<>>
         /\ lastBytes' = <<>>
         /\ lateSent' = {}
         /\ overtaken' = {}
         /\ UNCHANGED <<now, _list, _receiveTimeoutMs, waitStart, sends, nCancels,
                        cancelled>>

\* The add request for handle is still in the inbound buffer
AddQueued(handle) ==
    \E i \in 1 .. Len(_msgQueue) :
        _msgQueue[i].cmd = "add" /\ _msgQueue[i].data = handle

\* cancel(handle), for a handle an earlier schedule() returned.  The request
\* is the QMsg (cmd, data); early only remembers whether the add request for
\* the handle was still in the buffer when the cancel request was enqueued
Cancel(handle) ==
    /\ heap[handle].alloc
    /\ nCancels < MaxCancels
    /\ IF CanSend
       THEN /\ _msgQueue' = Append(_msgQueue,
                                   [cmd |-> "cancel", data |-> handle,
                                    early |-> AddQueued(handle)])
            /\ nCancels' = nCancels + 1
       ELSE /\ UNCHANGED <<_msgQueue, nCancels>>
    /\ schedRes' = NoCall
    /\ lastSent' = <<>>
    /\ sendOk' = <<>>
    /\ lastBytes' = <<>>
    /\ lateSent' = {}
    /\ overtaken' = {}
    /\ UNCHANGED <<now, heap, _list, _receiveTimeoutMs, waitStart,
                   sends, cancelled>>

\* A receive() that returns the newest request of the buffer, not the oldest
ReceiveNewestFirst ==
    /\ _msgQueue # <<>>
    /\ LET msg == _msgQueue[Len(_msgQueue)]
           r   == handleMessage(heap, _list, msg, now)
       IN  /\ heap' = r.heap
           /\ _list' = r.list
           /\ _receiveTimeoutMs' = r.timeout
           /\ lastSent' = r.sent
           /\ \E acc \in [1 .. Len(r.sent) -> BOOLEAN] : sendOk' = acc
           /\ lastBytes' = BytesOf(r.fired)
           /\ sends' = CountSends(sends, r.fired)
           /\ lateSent' = LateOf(r.fired, now)
           /\ overtaken' = OvertakenOf(r.fired)
           /\ cancelled' = IF msg.cmd = "cancel" THEN cancelled \cup {msg.data}
                           ELSE cancelled
    /\ _msgQueue' = SubSeq(_msgQueue, 1, Len(_msgQueue) - 1)
    /\ schedRes' = HandleRes(_msgQueue[Len(_msgQueue)])
    /\ waitStart' = now
    /\ UNCHANGED <<now, nCancels>>

\* A receive() that returns a waiting request only once its timeout has run out
ReceiveWhenTimedOut ==
    /\ _msgQueue # <<>>
    /\ _receiveTimeoutMs # MSG_TASK_WAIT_FOREVER
    /\ now >= waitStart + _receiveTimeoutMs
    /\ \E msg \in {Head(_msgQueue)} :
       \E r \in {handleMessage(heap, _list, msg, now)} :
           /\ heap' = r.heap
           /\ _list' = r.list
           /\ _receiveTimeoutMs' = r.timeout
           /\ lastSent' = r.sent
           /\ \E acc \in [1 .. Len(r.sent) -> BOOLEAN] : sendOk' = acc
           /\ lastBytes' = BytesOf(r.fired)
           /\ sends' = CountSends(sends, r.fired)
           /\ lateSent' = LateOf(r.fired, now)
           /\ overtaken' = OvertakenOf(r.fired)
           /\ cancelled' = IF msg.cmd = "cancel" THEN cancelled \cup {msg.data}
                           ELSE cancelled
    /\ _msgQueue' = Tail(_msgQueue)
    /\ schedRes' = HandleRes(Head(_msgQueue))
    /\ waitStart' = now
    /\ UNCHANGED <<now, nCancels>>

\* taskLoop: receive() returned a request; handleMessage runs
Receive ==
    /\ _msgQueue # <<>>
    /\ \E msg \in {Head(_msgQueue)} :
       \E r \in {handleMessage(heap, _list, msg, now)} :
           /\ heap' = r.heap
           /\ _list' = r.list
           /\ _receiveTimeoutMs' = r.timeout
           /\ lastSent' = r.sent
           /\ \E acc \in [1 .. Len(r.sent) -> BOOLEAN] : sendOk' = acc
           /\ lastBytes' = BytesOf(r.fired)
           /\ sends' = CountSends(sends, r.fired)
           /\ lateSent' = LateOf(r.fired, now)
           /\ overtaken' = OvertakenOf(r.fired)
           /\ cancelled' = IF msg.cmd = "cancel" THEN cancelled \cup {msg.data}
                           ELSE cancelled
    /\ _msgQueue' = Tail(_msgQueue)
    /\ schedRes' = HandleRes(Head(_msgQueue))
    /\ waitStart' = now
    /\ UNCHANGED <<now, nCancels>>

\* A handleTimeout that puts back, for another attempt, the one-shot
\* entries whose send was not accepted
TimeoutRetries ==
    /\ _msgQueue = <<>>
    /\ _receiveTimeoutMs # MSG_TASK_WAIT_FOREVER
    /\ now >= waitStart + _receiveTimeoutMs
    /\ \E r \in {handleTimeout(heap, _list, now)} :
       \E acc \in [1 .. Len(r.sent) -> BOOLEAN] :
           LET again == SelectSeq(r.sent, LAMBDA h :
                           /\ ~heap[h].periodic
                           /\ \E i \in 1 .. Len(r.sent) : r.sent[i] = h /\ ~acc[i])
           IN
           /\ heap' = [h \in Handles |->
                         IF h \in Elems(again) THEN heap[h] ELSE r.heap[h]]
           /\ _list' = again \o r.list
           /\ _receiveTimeoutMs' = IF again = <<>> THEN r.timeout ELSE 0
           /\ lastSent' = r.sent
           /\ sendOk' = acc
           /\ lastBytes' = BytesOf(r.fired)
           /\ sends' = CountSends(sends, r.fired)
           /\ lateSent' = LateOf(r.fired, now)
           /\ overtaken' = OvertakenOf(r.fired)
    /\ schedRes' = NoCall
    /\ waitStart' = now
    /\ UNCHANGED <<now, _msgQueue, nCancels, cancelled>>

\* taskLoop: receive() timed out; handleTimeout runs
Timeout ==
    /\ _msgQueue = <<>>
    /\ _receiveTimeoutMs # MSG_TASK_WAIT_FOREVER
    /\ now >= waitStart + _receiveTimeoutMs
    /\ \E r \in {handleTimeout(heap, _list, now)} :
           /\ heap' = r.heap
           /\ _list' = r.list
           /\ _receiveTimeoutMs' = r.timeout
           /\ lastSent' = r.sent
           /\ \E acc \in [1 .. Len(r.sent) -> BOOLEAN] : sendOk' = acc
           /\ lastBytes' = BytesOf(r.fired)
           /\ sends' = CountSends(sends, r.fired)
           /\ lateSent' = LateOf(r.fired, now)
           /\ overtaken' = OvertakenOf(r.fired)
    /\ schedRes' = NoCall
    /\ waitStart' = now
    /\ UNCHANGED <<now, _msgQueue, nCancels, cancelled>>

\* The clock advances while the scheduler task is blocked in receive()
Tick ==
    /\ now < MaxTime
    /\ _msgQueue = <<>>
    /\ \/ _receiveTimeoutMs = MSG_TASK_WAIT_FOREVER
       \/ now < waitStart + _receiveTimeoutMs
    /\ now' = now + 1
    /\ schedRes' = NoCall
    /\ lastSent' = <<>>
    /\ sendOk' = <<>>
    /\ lastBytes' = <<>>
    /\ lateSent' = {}
    /\ overtaken' = {}
    /\ UNCHANGED <<heap, _list, _msgQueue, _receiveTimeoutMs, waitStart, nCancels,
                   sends, cancelled>>

\* A caller makes a schedule() call with arguments the call accepts
CallSchedule ==
    /\ \E task \in Tasks, size \in Sizes \ {0},
          delay \in 0 .. MaxDelay, periodic \in BOOLEAN :
            /\ now + delay <= MaxTime     \* the first deadline lies within the run
            /\ \E buf \in Payloads(size) :
                  Schedule(task, buf, size, delay, periodic)
    /\ UNCHANGED <<busVars, lockVars, libVars>>

\* A caller makes a schedule() call with a null payload or a size of 0
CallScheduleInvalid ==
    /\ \E task \in Tasks, size \in Sizes :
          \E buf \in Payloads(size) \cup {NullData} :
            /\ buf.null \/ size = 0
            /\ Schedule(task, buf, size, 0, FALSE)
    /\ UNCHANGED <<busVars, lockVars, libVars>>

\* A caller makes a cancel() call
CallCancel ==
    /\ \E handle \in Handles : Cancel(handle)
    /\ UNCHANGED <<busVars, lockVars, libVars>>

\* The task loop's steps and the clock
TaskReceive == Receive /\ UNCHANGED <<busVars, lockVars, libVars>>
TaskTimeout == Timeout /\ UNCHANGED <<busVars, lockVars, libVars>>
ClockTick == Tick /\ UNCHANGED <<busVars, lockVars, libVars>>

SchedNext ==
    \/ CallSchedule
    \/ CallScheduleInvalid
    \/ CallCancel
    \/ TaskReceive
    \/ TaskTimeout
    \/ ClockTick

-----------------------------------------------------------------------------
(***************************************************************************)
(* MsgBus, TopicBase, Topic<T>                                             *)
(*                                                                         *)
(* A uint32_t (TopicId, subscription id) is the pair <<high 16 bits, low   *)
(* 16 bits>>, because the model's integers are 32-bit signed.              *)
(***************************************************************************)

\* bitwise exclusive or of two n-bit numbers
RECURSIVE Xor(_, _, _)
Xor(a, b, n) ==
    IF n = 0 THEN 0
    ELSE (((a % 2) + (b % 2)) % 2) + 2 * Xor(a \div 2, b \div 2, n - 1)

\* one round of fnv1a32: h ^= c; h *= 0x01000193 (= 2^24 + 403), modulo 2^32
FnvStep(h, c) ==
    LET lo  == (h[2] \div 256) * 256 + Xor(h[2] % 256, c, 8)
        plo == lo * 403
        phi == h[1] * 403 + (plo \div 65536) + (lo % 256) * 256
    IN  <<phi % 65536, plo % 65536>>

RECURSIVE FnvLoop(_, _)
FnvLoop(h, s) == IF s = <<>> THEN h ELSE FnvLoop(FnvStep(h, Head(s)), Tail(s))

\* The hash of a byte string, starting from 0x811C9DC5
Fnv(s) == FnvLoop(<<33052, 40389>>, s)

INVALID_TOPIC_ID == <<0, 0>>

\* Topic names, as byte strings: "t", "akhnp9x", and "x" (never registered)
NameT == <<116>>
NameZ == <<97, 107, 104, 110, 112, 57, 120>>
NameX == <<120>>
Names == {NameT, NameZ, NameX}
\* Two distinct names with one hash, 0xe460d8b6: "altarage" and "zinke"
NameA == <<97, 108, 116, 97, 114, 97, 103, 101>>
NameK == <<122, 105, 110, 107, 101>>
AliasNames == {NameA, NameK}
NameId == [n \in Names \cup AliasNames |-> Fnv(n)]
Ids == {NameId[n] : n \in Names}

\* TopicBase::fnv1a32, tabulated over the names in use
fnv1a32(s) == NameId[s]

\* Payload types, their sizes, and the address of getTypeId<T>()'s static token
Types == {"float", "double"}
sizeofT(T) == CASE T = "float" -> 4 [] T = "double" -> 8
alignofT(T) == CASE T = "float" -> 4 [] T = "double" -> 8
getTypeId(T) == CASE T = "float" -> 1 [] T = "double" -> 2

\* The Topic<T> objects of the program: two named "t" (a float and a double),
\* one named "akhnp9x" (a float, constructed without a write callback)
TopicObjs == {1, 2, 3}
\* Two more: a float named "altarage" and a double named "zinke", both with
\* a write callback
AliasObjs == {4, 5}
Objs == TopicObjs \cup AliasObjs
getName(o) == <<NameT, NameT, NameZ, NameA, NameK>>[o]
TypeOf(o) == <<"float", "double", "float", "float", "double">>[o]
typeId(o) == getTypeId(TypeOf(o))
HasWriteCb(o) == <<TRUE, TRUE, FALSE, TRUE, TRUE>>[o]
\* _fromJsonCb: set by setFromJsonCb for the first and the third
HasFromJsonCb(o) == <<TRUE, FALSE, TRUE, FALSE, FALSE>>[o]
\* _toJsonCb: the first is given Topic::toJsonFloat, the others none
HasToJsonCb(o) == <<TRUE, FALSE, FALSE, FALSE, FALSE>>[o]

Receivers == {"R1", "R2"}
Values == 0 .. MaxValue

\* QMsg<uint32_t, T>::size(): sizeof(C) + sizeof(D)
sizeofCmd == 4
MsgSize(o) == sizeofCmd + sizeofT(TypeOf(o))

\* The layout of a QMsg<uint32_t, T> object: cmd at offset 0, data at the next
\* offset that is a multiple of alignof(T)
offsetofData(T) == ((sizeofCmd + alignofT(T) - 1) \div alignofT(T)) * alignofT(T)

\* The bytes of msg.data that lie within the first len bytes of the object
PayloadBytesIn(T, len) ==
    LET n == len - offsetofData(T)
    IN  IF n <= 0 THEN 0 ELSE IF n >= sizeofT(T) THEN sizeofT(T) ELSE n

\* What s.q->send(&msg, msg.size()) hands to a receiver: the command, the
\* length, the payload value and how many of the payload's bytes are carried
Envelope(o, cmd, value) ==
    [cmd |-> cmd, len |-> MsgSize(o), value |-> value,
     carried |-> PayloadBytesIn(TypeOf(o), MsgSize(o))]

\* A bool converted to an integer, as in the comparison with msg.size()
BoolToInt(b) == IF b THEN 1 ELSE 0

\* MsgBus::findTopic
findTopic(handle) == IF handle \in DOMAIN topics_ THEN topics_[handle] ELSE Null

\* A topicId that resolves a name only to a topic of that name
topicIdOfName(name) ==
    LET id == fnv1a32(name)
    IN  IF id \in DOMAIN topics_ /\ getName(topics_[id]) = name
        THEN id ELSE INVALID_TOPIC_ID

\* MsgBus::topicId
topicId(name) ==
    LET id == fnv1a32(name)
    IN  IF id \in DOMAIN topics_ THEN id ELSE INVALID_TOPIC_ID

\* MsgBus::topicName ("" when the id is unknown)
topicName(id) == IF id \in DOMAIN topics_ THEN getName(topics_[id]) ELSE <<>>

\* An addSubscriber that puts the new subscriber in front of the others
addSubscriberFront(subs, q, id) ==
    IF \E i \in 1 .. Len(subs) : subs[i].q = q /\ subs[i].id = id
    THEN [ok |-> FALSE, subs |-> subs]
    ELSE [ok |-> TRUE, subs |-> <<[q |-> q, id |-> id]>> \o subs]

\* TopicBase::addSubscriber: [ok, subs]
addSubscriber(subs, q, id) ==
    IF \E i \in 1 .. Len(subs) : subs[i].q = q /\ subs[i].id = id
    THEN [ok |-> FALSE, subs |-> subs]
    ELSE [ok |-> TRUE, subs |-> Append(subs, [q |-> q, id |-> id])]

\* A removeSubscriber that reports the match and erases nothing
removeSubscriberKeeps(subs, q, id) ==
    [ok |-> \E i \in 1 .. Len(subs) : subs[i].q = q /\ subs[i].id = id,
     subs |-> subs]

\* A removeSubscriber that erases from the first match to the end of the list
removeSubscriberToEnd(subs, q, id) ==
    LET hits == {i \in 1 .. Len(subs) : subs[i].q = q /\ subs[i].id = id}
    IN  IF hits = {} THEN [ok |-> FALSE, subs |-> subs]
        ELSE [ok |-> TRUE,
              subs |-> SubSeq(subs, 1, (CHOOSE i \in hits : \A j \in hits : i <= j) - 1)]

\* TopicBase::removeSubscriber: [ok, subs]
removeSubscriber(subs, q, id) ==
    LET kept == SelectSeq(subs, LAMBDA x : ~(x.q = q /\ x.id = id))
    IN  IF Len(kept) # Len(subs)
        THEN [ok |-> TRUE, subs |-> kept]
        ELSE [ok |-> FALSE, subs |-> subs]

\* The record of a MsgBus call that returned: the operation, the Result, the
\* topic object it found, the id or name and the receiver it was given, the
\* type U of a requestWrite<U>, what the write callback returned at each of
\* its invocations, what was stored through outHandle (<<>>: nothing, <<id>>:
\* the id), and the receivers the call sent to
Res(op, result, topic, arg, rcv, U, cb) ==
    [op |-> op, result |-> result, topic |-> topic, arg |-> arg, rcv |-> rcv,
     U |-> U, cb |-> cb, out |-> <<>>, log |-> <<>>]
NoRes == Res("none", "OK", Null, <<>>, "-", "-", <<>>)

\* The record of a notify() that returned: the value returned,
\* the receivers sent to, the number of sends that failed, the receivers
\* subscribed when it was called, those whose subscription changed while it
\* ran, the subscribe or unsubscribe that returned OK just before, if any,
\* and the envelope handed to each receiver of log
NotifyRes(o, errors, log, failed, startSubs, touched, after, env) ==
    [op |-> "notify", result |-> "-", topic |-> o, ret |-> errors, log |-> log,
     failed |-> failed, startSubs |-> startSubs, touched |-> touched,
     after |-> after, env |-> env]

\* No notify() is running
NoFrame == [pc |-> "idle", topic |-> Null, subs_copy |-> <<>>]
Notifying == notifyFrame.pc \in {"copy", "send"}

\* The receivers subscribed to a topic object
SubscribedTo(o) == {subscribers_[o][i].q : i \in 1 .. Len(subscribers_[o])}

\* A running notify() of topic o sees the subscription of rcv change
Touch(o, rcv) ==
    IF Notifying /\ notifyFrame.topic = o
    THEN [notifyFrame EXCEPT !.touched = @ \cup {rcv}]
    ELSE notifyFrame

BusInit ==
    /\ topics_ = <<>>
    /\ subscribers_ = [o \in Objs |-> <<>>]
    /\ data = [o \in Objs |-> 0]
    /\ busRes = NoRes
    /\ notifyFrame = NoFrame

\* A registerTopic that stores the topic and writes outHandle even when the
\* id is already in the map
registerTopicOverwrite(topic, withOut) ==
    IF topic = Null
    THEN /\ busRes' = Res("registerTopic", "ZERO_TOPIC", Null, <<>>, "-", "-", <<>>)
         /\ UNCHANGED <<topics_, subscribers_, data, notifyFrame>>
    ELSE LET topicHandle == fnv1a32(getName(topic))
             inserted    == topicHandle \notin DOMAIN topics_
         IN  /\ topics_' = [id \in DOMAIN topics_ \cup {topicHandle} |->
                              IF id = topicHandle THEN topic ELSE topics_[id]]
             /\ busRes' = [Res("registerTopic",
                                 IF inserted THEN "OK" ELSE "TOPIC_EXISTS",
                                 topic, <<>>, "-", "-", <<>>)
                             EXCEPT !.out = IF withOut THEN <<topicHandle>> ELSE <<>>]
             /\ UNCHANGED <<subscribers_, data, notifyFrame>>

\* A registerTopic whose insertion drops the entries registered before
registerTopicAlone(topic, withOut) ==
    IF topic = Null
    THEN /\ busRes' = Res("registerTopic", "ZERO_TOPIC", Null, <<>>, "-", "-", <<>>)
         /\ UNCHANGED <<topics_, subscribers_, data, notifyFrame>>
    ELSE LET topicHandle == fnv1a32(getName(topic))
             inserted    == topicHandle \notin DOMAIN topics_
         IN  /\ topics_' = IF inserted THEN (topicHandle :> topic) ELSE topics_
             /\ busRes' = [Res("registerTopic",
                                 IF inserted THEN "OK" ELSE "TOPIC_EXISTS",
                                 topic, <<>>, "-", "-", <<>>)
                             EXCEPT !.out = IF inserted /\ withOut
                                            THEN <<topicHandle>> ELSE <<>>]
             /\ UNCHANGED <<subscribers_, data, notifyFrame>>

\* MsgBus::registerTopic(topic, outHandle); withOut: an outHandle is passed
registerTopic(topic, withOut) ==
    IF topic = Null
    THEN /\ busRes' = Res("registerTopic", "ZERO_TOPIC", Null, <<>>, "-", "-", <<>>)
         /\ UNCHANGED <<topics_, subscribers_, data, notifyFrame>>
    ELSE LET topicHandle == fnv1a32(getName(topic))
             inserted    == topicHandle \notin DOMAIN topics_
         IN  /\ topics_' = IF inserted THEN topics_ @@ (topicHandle :> topic)
                           ELSE topics_
             /\ busRes' = [Res("registerTopic",
                                 IF inserted THEN "OK" ELSE "TOPIC_EXISTS",
                                 topic, <<>>, "-", "-", <<>>)
                             EXCEPT !.out = IF inserted /\ withOut
                                            THEN <<topicHandle>> ELSE <<>>]
             /\ UNCHANGED <<subscribers_, data, notifyFrame>>

\* MsgBus::subscribe(topicId, receiver)
subscribe(op, arg, id, receiver) ==
    LET topic == findTopic(id) IN
    IF topic = Null
    THEN /\ busRes' = Res(op, "TOPIC_NOT_FOUND", Null, arg, receiver, "-", <<>>)
         /\ UNCHANGED <<topics_, subscribers_, data, notifyFrame>>
    ELSE LET r == addSubscriber(subscribers_[topic], receiver, id) IN
         /\ subscribers_' = [subscribers_ EXCEPT ![topic] = r.subs]
         /\ busRes' = Res(op, IF r.ok THEN "OK" ELSE "SUB_EXISTS",
                          topic, arg, receiver, "-", <<>>)
         /\ notifyFrame' = IF r.ok THEN Touch(topic, receiver) ELSE notifyFrame
         /\ UNCHANGED <<topics_, data>>

\* MsgBus::subscribe(name, receiver)
subscribeByName(name, receiver) ==
    subscribe("subscribeByName", name, topicId(name), receiver)

\* MsgBus::unsubscribe(topicId, receiver)
unsubscribe(id, receiver) ==
    IF id \notin DOMAIN topics_
    THEN /\ busRes' = Res("unsubscribe", "TOPIC_NOT_FOUND", Null, id, receiver,
                          "-", <<>>)
         /\ UNCHANGED <<topics_, subscribers_, data, notifyFrame>>
    ELSE LET topic == topics_[id]
             r     == removeSubscriber(subscribers_[topic], receiver, id)
         IN  /\ subscribers_' = [subscribers_ EXCEPT ![topic] = r.subs]
             /\ busRes' = Res("unsubscribe", IF r.ok THEN "OK" ELSE "SUB_NOT_FOUND",
                              topic, id, receiver, "-", <<>>)
             /\ notifyFrame' = IF r.ok THEN Touch(topic, receiver) ELSE notifyFrame
             /\ UNCHANGED <<topics_, data>>

\* A requestWrite<U> that returns OK whatever the write callback returns
requestWriteIgnoresCb(op, arg, U, id, value, accept) ==
    LET topic == findTopic(id) IN
    IF topic = Null
    THEN /\ busRes' = Res(op, "TOPIC_NOT_FOUND", Null, arg, "-", U, <<>>)
         /\ UNCHANGED <<topics_, subscribers_, data, notifyFrame>>
    ELSE IF typeId(topic) # getTypeId(U)
    THEN /\ busRes' = Res(op, "TYPE_MISMATCH", topic, arg, "-", U, <<>>)
         /\ UNCHANGED <<topics_, subscribers_, data, notifyFrame>>
    ELSE /\ busRes' = Res(op, "OK", topic, arg, "-", U,
                          IF HasWriteCb(topic) THEN <<accept>> ELSE <<>>)
         /\ data' = IF HasWriteCb(topic) /\ accept
                    THEN [data EXCEPT ![topic] = value] ELSE data
         /\ UNCHANGED <<topics_, subscribers_, notifyFrame>>

\* MsgBus::requestWrite<U>(topicId, value).  accept: what the topic's write
\* callback returns; a callback that accepts stores the value in the payload.
requestWrite(op, arg, U, id, value, accept) ==
    LET topic == findTopic(id) IN
    IF topic = Null
    THEN /\ busRes' = Res(op, "TOPIC_NOT_FOUND", Null, arg, "-", U, <<>>)
         /\ UNCHANGED <<topics_, subscribers_, data, notifyFrame>>
    ELSE IF typeId(topic) # getTypeId(U)
    THEN /\ busRes' = Res(op, "TYPE_MISMATCH", topic, arg, "-", U, <<>>)
         /\ UNCHANGED <<topics_, subscribers_, data, notifyFrame>>
    ELSE IF ~HasWriteCb(topic)
    THEN /\ busRes' = Res(op, "WRITE_FAILED", topic, arg, "-", U, <<>>)
         /\ UNCHANGED <<topics_, subscribers_, data, notifyFrame>>
    ELSE /\ busRes' = Res(op, IF accept THEN "OK" ELSE "WRITE_FAILED",
                          topic, arg, "-", U, <<accept>>)
         /\ data' = IF accept THEN [data EXCEPT ![topic] = value] ELSE data
         /\ UNCHANGED <<topics_, subscribers_, notifyFrame>>

\* A requestWrite(topicId, json) that also sends the value to the subscribers
requestWriteJsonNotifies(id, parsed, value, accept) ==
    LET topic == findTopic(id) IN
    IF topic = Null
    THEN /\ busRes' = Res("requestWriteJson", "TOPIC_NOT_FOUND", Null, id, "-", "-",
                          <<>>)
         /\ UNCHANGED <<topics_, subscribers_, data, notifyFrame>>
    ELSE LET called == HasFromJsonCb(topic) /\ parsed /\ HasWriteCb(topic)
             ok     == called /\ accept
         IN  /\ busRes' = [Res("requestWriteJson", IF ok THEN "OK" ELSE "WRITE_FAILED",
                                 topic, id, "-", "-", IF called THEN <<accept>> ELSE <<>>)
                             EXCEPT !.log = IF ok
                                            THEN [i \in 1 .. Len(subscribers_[topic]) |->
                                                    subscribers_[topic][i].q]
                                            ELSE <<>>]
             /\ data' = IF ok THEN [data EXCEPT ![topic] = value] ELSE data
             /\ UNCHANGED <<topics_, subscribers_, notifyFrame>>

\* MsgBus::requestWrite(topicId, json) and Topic::requestWrite(json).  parsed:
\* what _fromJsonCb returns for the text, value: what it stores; accept: what
\* the write callback returns
requestWriteJson(id, parsed, value, accept) ==
    LET topic == findTopic(id) IN
    IF topic = Null
    THEN /\ busRes' = Res("requestWriteJson", "TOPIC_NOT_FOUND", Null, id, "-", "-",
                          <<>>)
         /\ UNCHANGED <<topics_, subscribers_, data, notifyFrame>>
    ELSE LET called == HasFromJsonCb(topic) /\ parsed /\ HasWriteCb(topic)
             ok     == called /\ accept
         IN  /\ busRes' = Res("requestWriteJson", IF ok THEN "OK" ELSE "WRITE_FAILED",
                              topic, id, "-", "-", IF called THEN <<accept>> ELSE <<>>)
             /\ data' = IF ok THEN [data EXCEPT ![topic] = value] ELSE data
             /\ UNCHANGED <<topics_, subscribers_, notifyFrame>>

\* MsgBus::requestWrite<U>(name, value)
requestWriteByName(U, name, value, accept) ==
    LET id == topicId(name) IN
    IF id = INVALID_TOPIC_ID
    THEN /\ busRes' = Res("requestWriteByName", "TOPIC_NOT_FOUND", Null, name, "-",
                          U, <<>>)
         /\ UNCHANGED <<topics_, subscribers_, data, notifyFrame>>
    ELSE requestWrite("requestWriteByName", name, U, id, value, accept)

\* The characters printf's "%f" produces for the payload values in use
FloatText(v) ==
    <<(<<"0", "1", "2", "3", "4", "5", "6", "7", "8", "9">>)[v + 1], ".",
      "0", "0", "0", "0", "0", "0">>

\* snprintf(json.data(), size, ...) producing text: the characters stored in
\* front of the terminating NUL, and the value returned
snprintf(size, text) ==
    [stored |-> IF size = 0 THEN <<>>
                ELSE SubSeq(text, 1, IF Len(text) < size - 1 THEN Len(text)
                                     ELSE size - 1),
     written |-> Len(text)]

\* Topic::toJsonFloat(data, json, format) with format = nullptr: [rc, text]
toJsonFloat(value, size) ==
    LET p == snprintf(size, FloatText(value))
    IN  [rc |-> IF p.written < 0 \/ p.written >= size THEN -1 ELSE p.written,
         text |-> p.stored]

\* Topic::toJson(json): [rc, text], text being what json holds afterwards
\* (<<>>: the buffer was not written)
TopicToJson(o, size) ==
    IF ~HasToJsonCb(o) THEN [rc |-> -1, text |-> <<>>]
    ELSE toJsonFloat(data[o], size)

\* The record of a MsgBus::toJson call that returned: the Result, the topic
\* found, the id and the size of the buffer it was given, what Topic::toJson
\* returned and what the buffer holds
JsonRes(result, topic, id, size, rc, text) ==
    [op |-> "toJson", result |-> result, topic |-> topic, arg |-> id,
     size |-> size, rc |-> rc, text |-> text, log |-> <<>>]

\* MsgBus::toJson(topicId, json); size is json.size()
toJson(id, size) ==
    LET topic == findTopic(id) IN
    /\ busRes' = IF topic = Null
                 THEN JsonRes("TOPIC_NOT_FOUND", Null, id, size, 0, <<>>)
                 ELSE LET r == TopicToJson(topic, size)
                      IN  JsonRes(IF r.rc # 0 THEN "OK" ELSE "JSON_PARSE_FAILED",
                                  topic, id, size, r.rc, r.text)
    /\ UNCHANGED <<topics_, subscribers_, data, notifyFrame>>

\* The subscribe or unsubscribe that returned OK for topic o just before
After(o) ==
    IF busRes.topic = o /\ busRes.result = "OK"
       /\ busRes.op \in {"subscribe", "subscribeByName", "unsubscribe"}
    THEN <<busRes.op, busRes.rcv>> ELSE <<>>

\* Topic::notify(), entry: the size check made without the lock; with no
\* subscriber it returns 0 at once
notifyBegin(o) ==
    /\ notifyFrame.pc = "idle"
    /\ IF Len(subscribers_[o]) = 0
       THEN /\ busRes' = NotifyRes(o, 0, <<>>, 0, {}, {}, After(o), <<>>)
            /\ notifyFrame' = NoFrame
       ELSE /\ busRes' = NoRes
            /\ notifyFrame' = [pc |-> "copy", topic |-> o, subs_copy |-> <<>>,
                               startSubs |-> SubscribedTo(o), touched |-> {},
                               after |-> After(o)]
    /\ UNCHANGED <<topics_, subscribers_, data>>

\* Topic::notify(): the copy of the subscriber list, made under subs_mtx_
notifyCopy ==
    /\ notifyFrame.pc = "copy"
    /\ notifyFrame' = [notifyFrame EXCEPT !.pc = "send",
                         !.subs_copy = subscribers_[notifyFrame.topic]]
    /\ busRes' = NoRes
    /\ UNCHANGED <<topics_, subscribers_, data>>

\* The loop of Topic::notify() over subs_copy; sent[i]: what the i-th
\* s.q->send returned.  [errors, failed]: the loop's counter, and the number
\* of sends that did fail
RECURSIVE notifyLoop(_, _, _, _, _)
notifyLoop(o, subs, sent, i, acc) ==
    IF i > Len(subs) THEN acc
    ELSE notifyLoop(o, subs, sent, i + 1,
           [errors |-> IF BoolToInt(sent[i]) # MsgSize(o)
                       THEN acc.errors + 1 ELSE acc.errors,
            failed |-> IF sent[i] THEN acc.failed ELSE acc.failed + 1])

\* Topic::notify(): the sends, made outside the lock, and the return
notifySend(sent) ==
    /\ notifyFrame.pc = "send"
    /\ LET f == notifyFrame
           r == notifyLoop(f.topic, f.subs_copy, sent, 1, [errors |-> 0, failed |-> 0])
       IN  busRes' = NotifyRes(f.topic, r.errors,
                               [i \in 1 .. Len(f.subs_copy) |-> f.subs_copy[i].q],
                               r.failed, f.startSubs, f.touched, f.after,
                               [i \in 1 .. Len(f.subs_copy) |->
                                  Envelope(f.topic, f.subs_copy[i].id,
                                           data[f.topic])])
    /\ notifyFrame' = NoFrame
    /\ UNCHANGED <<topics_, subscribers_, data>>

\* While a notify() is running, the calls of other tasks that are interleaved
\* with it are those it can observe: a subscribe (adding) or unsubscribe that
\* changes the subscriber list of the topic being notified.  Every other call
\* reads and writes nothing that notify() touches, and so commutes with its
\* steps.
Interleaves(id, receiver, adding) ==
    Notifying =>
        /\ findTopic(id) = notifyFrame.topic
        /\ (receiver \in SubscribedTo(notifyFrame.topic)) = ~adding

CallRegisterTopic ==
    /\ ~Notifying
    /\ \E topic \in TopicObjs \cup {Null}, withOut \in BOOLEAN :
          registerTopic(topic, withOut)
    /\ UNCHANGED <<schedVars, lockVars, libVars>>

CallSubscribe ==
    /\ \E id \in Ids, receiver \in Receivers :
          Interleaves(id, receiver, TRUE) /\ subscribe("subscribe", id, id, receiver)
    /\ UNCHANGED <<schedVars, lockVars, libVars>>

CallSubscribeByName ==
    /\ \E name \in Names, receiver \in Receivers :
          Interleaves(topicId(name), receiver, TRUE) /\ subscribeByName(name, receiver)
    /\ UNCHANGED <<schedVars, lockVars, libVars>>

CallUnsubscribe ==
    /\ \E id \in Ids, receiver \in Receivers :
          Interleaves(id, receiver, FALSE) /\ unsubscribe(id, receiver)
    /\ UNCHANGED <<schedVars, lockVars, libVars>>

CallRequestWrite ==
    /\ ~Notifying
    /\ \E U \in Types, id \in Ids, value \in Values, accept \in BOOLEAN :
          requestWrite("requestWrite", id, U, id, value, accept)
    /\ UNCHANGED <<schedVars, lockVars, libVars>>

CallRequestWriteByName ==
    /\ ~Notifying
    /\ \E U \in Types, name \in Names, value \in Values, accept \in BOOLEAN :
          requestWriteByName(U, name, value, accept)
    /\ UNCHANGED <<schedVars, lockVars, libVars>>

CallRequestWriteJson ==
    /\ ~Notifying
    /\ \E id \in Ids, parsed \in BOOLEAN, value \in Values, accept \in BOOLEAN :
          requestWriteJson(id, parsed, value, accept)
    /\ UNCHANGED <<schedVars, lockVars, libVars>>

\* json.size() of the buffers passed to toJson: one too small for "0.000000"
\* and its NUL by one character, and one that holds them
JsonSizes == {8, 9}

CallToJson ==
    /\ ~Notifying
    /\ \E id \in Ids, size \in JsonSizes : toJson(id, size)
    /\ UNCHANGED <<schedVars, lockVars, libVars>>

\* The owning task's notify(), step by step
NotifyBegin == (\E o \in TopicObjs : notifyBegin(o)) /\ UNCHANGED <<schedVars, lockVars, libVars>>
NotifyCopy == notifyCopy /\ UNCHANGED <<schedVars, lockVars, libVars>>
NotifySend ==
    /\ \E sent \in [1 .. Len(notifyFrame.subs_copy) -> BOOLEAN] : notifySend(sent)
    /\ UNCHANGED <<schedVars, lockVars, libVars>>

BusNext ==
    \/ CallRegisterTopic
    \/ CallSubscribe
    \/ CallSubscribeByName
    \/ CallUnsubscribe
    \/ CallRequestWrite
    \/ CallRequestWriteByName
    \/ CallRequestWriteJson
    \/ CallToJson
    \/ NotifyBegin
    \/ NotifyCopy
    \/ NotifySend

\* One topic with three receivers: the calls that build, change and use its
\* subscriber list
Receivers3 == Receivers \cup {"R3"}

OrdRegisterTopic ==
    /\ ~Notifying
    /\ registerTopic(1, FALSE)
    /\ UNCHANGED <<schedVars, lockVars, libVars>>

OrdSubscribe ==
    /\ \E receiver \in Receivers3 :
          /\ Interleaves(NameId[NameT], receiver, TRUE)
          /\ subscribe("subscribe", NameId[NameT], NameId[NameT], receiver)
    /\ UNCHANGED <<schedVars, lockVars, libVars>>

OrdUnsubscribe ==
    /\ \E receiver \in Receivers3 :
          /\ Interleaves(NameId[NameT], receiver, FALSE)
          /\ unsubscribe(NameId[NameT], receiver)
    /\ UNCHANGED <<schedVars, lockVars, libVars>>

OrdNotifyBegin == notifyBegin(1) /\ UNCHANGED <<schedVars, lockVars, libVars>>

OrderNext ==
    \/ OrdRegisterTopic
    \/ OrdSubscribe
    \/ OrdUnsubscribe
    \/ OrdNotifyBegin
    \/ NotifyCopy
    \/ NotifySend

\* Two topics whose names have the same hash: the calls that register them
\* and that look them up by name
AlRegisterTopic ==
    /\ \E topic \in AliasObjs, withOut \in BOOLEAN : registerTopic(topic, withOut)
    /\ UNCHANGED <<schedVars, lockVars, libVars>>

AlSubscribeByName ==
    /\ \E name \in AliasNames, receiver \in Receivers : subscribeByName(name, receiver)
    /\ UNCHANGED <<schedVars, lockVars, libVars>>

AlUnsubscribe ==
    /\ \E receiver \in Receivers : unsubscribe(NameId[NameA], receiver)
    /\ UNCHANGED <<schedVars, lockVars, libVars>>

AlRequestWriteByName ==
    /\ \E U \in Types, name \in AliasNames, value \in Values, accept \in BOOLEAN :
          requestWriteByName(U, name, value, accept)
    /\ UNCHANGED <<schedVars, lockVars, libVars>>

AliasNext ==
    \/ AlRegisterTopic
    \/ AlSubscribeByName
    \/ AlUnsubscribe
    \/ AlRequestWriteByName

\* ---------------------------------------------------------------------------
\* The bus calls at the grain of their mutexes: two tasks, one topic
\* ---------------------------------------------------------------------------

\* The task that owns the topic and calls its notify(), and another task
Owner == "owner"
Threads == {Owner, "other"}
Free == "free"

\* The topic object the tasks work on, and its identifier
LockTopic == 1
LockId == fnv1a32(getName(LockTopic))

\* An activation of a bus call.  pc: "lock_name" and "lock_map" wait for
\* mutex_, "name" and "map" hold it; "lock_subs" waits for subs_mtx_ of the
\* topic, "subs" holds it; "size" and "send" are the unlocked parts of notify()
Frame(op, pc, rcv, topic) ==
    [op |-> op, pc |-> pc, id |-> LockId, rcv |-> rcv, topic |-> topic,
     subs_copy |-> <<>>, i |-> 0]

NoAccess == [thread |-> "-", kind |-> "none", locked |-> TRUE, racing |-> FALSE]
NoLockRes == [thread |-> "-", op |-> "none", result |-> "-", nested |-> FALSE]

LockInit ==
    /\ mutex_ = Free
    /\ subs_mtx_ = [o \in TopicObjs |-> Free]
    /\ stack = [t \in Threads |-> <<>>]
    /\ access = NoAccess
    /\ lockRes = NoLockRes

Top(t) == stack[t][Len(stack[t])]
InCall(t) == stack[t] # <<>>
SetTop(t, f) == [stack EXCEPT ![t] = [@ EXCEPT ![Len(@)] = f]]
Push(st, t, f) == [st EXCEPT ![t] = Append(@, f)]
Pop(t) == [stack EXCEPT ![t] = SubSeq(@, 1, Len(@) - 1)]

\* The return of the innermost call of task t
Return(t, result) ==
    /\ stack' = Pop(t)
    /\ lockRes' = [thread |-> t, op |-> Top(t).op, result |-> result,
                   nested |-> Len(stack[t]) > 1]

\* A read or write of the subscribers_ vector of topic o by task t; racing:
\* another task is inside a section that writes the vector
Access(t, o, kind) ==
    [thread |-> t, kind |-> kind, locked |-> subs_mtx_[o] = t,
     racing |-> \E u \in Threads \ {t} :
                   /\ InCall(u)
                   /\ Top(u).pc = "subs"
                   /\ Top(u).topic = o
                   /\ Top(u).op \in {"subscribe", "unsubscribe"}]

\* A task calls registerTopic, subscribe, unsubscribe or getTopicInfo, or the
\* owner calls notify() on its topic
lkCall(t) ==
    /\ ~InCall(t)
    /\ \E rcv \in Receivers :
         \E f \in {Frame("subscribe", "lock_map", rcv, Null),
                   Frame("unsubscribe", "lock_map", rcv, Null),
                   Frame("registerTopic", "lock_map", "-", LockTopic),
                   Frame("getTopicInfo", "lock_name", "-", Null)}
                  \cup (IF t = Owner
                        THEN {Frame("notify", "size", "-", LockTopic)} ELSE {}) :
            stack' = Push(stack, t, f)
    /\ lockRes' = NoLockRes
    /\ UNCHANGED <<mutex_, subs_mtx_, access, topics_, subscribers_>>

\* std::lock_guard<std::mutex> lock(mutex_) in registerTopic, topicName,
\* findTopic and unsubscribe
lkLockMap(t) ==
    /\ InCall(t)
    /\ Top(t).pc \in {"lock_name", "lock_map"}
    /\ mutex_ = Free
    /\ mutex_' = t
    /\ stack' = SetTop(t, [Top(t) EXCEPT !.pc = IF @ = "lock_name" THEN "name" ELSE "map"])
    /\ lockRes' = NoLockRes
    /\ UNCHANGED <<subs_mtx_, access, topics_, subscribers_>>

\* A lookup that leaves its scope without giving up mutex_
lkLookupHeld(t) ==
    /\ Top(t).op \in {"subscribe", "unsubscribe", "getTopicInfo"}
    /\ Top(t).pc = "map"
    /\ LET topic == findTopic(Top(t).id) IN
       IF topic = Null
       THEN Return(t, "TOPIC_NOT_FOUND") /\ mutex_' = Free
       ELSE /\ stack' = SetTop(t, [Top(t) EXCEPT !.pc = "lock_subs", !.topic = topic])
            /\ lockRes' = NoLockRes
            /\ UNCHANGED mutex_
    /\ UNCHANGED <<subs_mtx_, access, topics_, subscribers_>>

\* findTopic (subscribe, getTopicInfo) and the scoped block of unsubscribe:
\* topics_.find under mutex_, which the end of the scope gives up
lkLookup(t) ==
    /\ Top(t).op \in {"subscribe", "unsubscribe", "getTopicInfo"}
    /\ Top(t).pc = "map"
    /\ mutex_' = Free
    /\ LET topic == findTopic(Top(t).id) IN
       IF topic = Null
       THEN Return(t, "TOPIC_NOT_FOUND")
       ELSE /\ stack' = SetTop(t, [Top(t) EXCEPT !.pc = "lock_subs", !.topic = topic])
            /\ lockRes' = NoLockRes
    /\ UNCHANGED <<subs_mtx_, access, topics_, subscribers_>>

\* topicName, called by getTopicInfo: topics_.find under mutex_
lkTopicName(t) ==
    /\ Top(t).pc = "name"
    /\ mutex_' = Free
    /\ stack' = SetTop(t, [Top(t) EXCEPT !.pc = "lock_map"])
    /\ lockRes' = NoLockRes
    /\ UNCHANGED <<subs_mtx_, access, topics_, subscribers_>>

\* registerTopic: topics_.emplace under mutex_
lkEmplace(t) ==
    /\ Top(t).op = "registerTopic"
    /\ Top(t).pc = "map"
    /\ mutex_' = Free
    /\ LET topicHandle == fnv1a32(getName(Top(t).topic))
           inserted    == topicHandle \notin DOMAIN topics_
       IN  /\ topics_' = IF inserted THEN topics_ @@ (topicHandle :> Top(t).topic)
                         ELSE topics_
           /\ Return(t, IF inserted THEN "OK" ELSE "TOPIC_EXISTS")
    /\ UNCHANGED <<subs_mtx_, access, subscribers_>>

\* The part of a call that runs while the task holds mutex_
lkMap(t) ==
    /\ InCall(t)
    /\ mutex_ = t
    /\ lkLookup(t) \/ lkTopicName(t) \/ lkEmplace(t)

\* std::lock_guard<std::mutex> lk(subs_mtx_) in addSubscriber,
\* removeSubscriber, subscribers() and notify()
lkLockSubs(t) ==
    /\ InCall(t)
    /\ Top(t).pc = "lock_subs"
    /\ subs_mtx_[Top(t).topic] = Free
    /\ subs_mtx_' = [subs_mtx_ EXCEPT ![Top(t).topic] = t]
    /\ stack' = SetTop(t, [Top(t) EXCEPT !.pc = "subs"])
    /\ lockRes' = NoLockRes
    /\ UNCHANGED <<mutex_, access, topics_, subscribers_>>

\* addSubscriber and removeSubscriber under subs_mtx_
lkChangeSubs(t) ==
    /\ Top(t).op \in {"subscribe", "unsubscribe"}
    /\ LET f == Top(t)
           r == IF f.op = "subscribe"
                THEN addSubscriber(subscribers_[f.topic], f.rcv, f.id)
                ELSE removeSubscriber(subscribers_[f.topic], f.rcv, f.id)
       IN  /\ subscribers_' = [subscribers_ EXCEPT ![f.topic] = r.subs]
           /\ access' = Access(t, f.topic, "write")
           /\ subs_mtx_' = [subs_mtx_ EXCEPT ![f.topic] = Free]
           /\ Return(t, IF r.ok THEN "OK"
                        ELSE IF f.op = "subscribe" THEN "SUB_EXISTS"
                        ELSE "SUB_NOT_FOUND")
    /\ UNCHANGED <<mutex_, topics_>>

\* TopicBase::subscribers(), called by getTopicInfo: size() under subs_mtx_
lkCountSubs(t) ==
    /\ Top(t).op = "getTopicInfo"
    /\ access' = Access(t, Top(t).topic, "read")
    /\ subs_mtx_' = [subs_mtx_ EXCEPT ![Top(t).topic] = Free]
    /\ Return(t, "OK")
    /\ UNCHANGED <<mutex_, topics_, subscribers_>>

\* A notify() whose copy does not give up subs_mtx_
lkNotifyCopyHeld(t) ==
    /\ Top(t).op = "notify"
    /\ access' = Access(t, Top(t).topic, "read")
    /\ stack' = SetTop(t, [Top(t) EXCEPT !.pc = "send", !.i = 1,
                             !.subs_copy = subscribers_[Top(t).topic]])
    /\ lockRes' = NoLockRes
    /\ UNCHANGED <<mutex_, subs_mtx_, topics_, subscribers_>>

\* Topic::notify(): subs_copy = subscribers_ in the scope of the lock_guard
lkNotifyCopy(t) ==
    /\ Top(t).op = "notify"
    /\ access' = Access(t, Top(t).topic, "read")
    /\ subs_mtx_' = [subs_mtx_ EXCEPT ![Top(t).topic] = Free]
    /\ stack' = SetTop(t, [Top(t) EXCEPT !.pc = "send", !.i = 1,
                             !.subs_copy = subscribers_[Top(t).topic]])
    /\ lockRes' = NoLockRes
    /\ UNCHANGED <<mutex_, topics_, subscribers_>>

\* The part of a call that runs while the task holds subs_mtx_
lkSubs(t) ==
    /\ InCall(t)
    /\ Top(t).pc = "subs"
    /\ subs_mtx_[Top(t).topic] = t
    /\ lkChangeSubs(t) \/ lkCountSubs(t) \/ lkNotifyCopy(t)

\* Topic::notify(): `if (subscribers_.size() == 0) return 0;`, read without
\* subs_mtx_.  While another task is writing the vector the read is a data
\* race, and the test may go either way
lkNotifySize(t) ==
    /\ InCall(t)
    /\ Top(t).pc = "size"
    /\ access' = Access(t, Top(t).topic, "read")
    /\ \E empty \in IF access'.racing THEN BOOLEAN
                    ELSE {Len(subscribers_[Top(t).topic]) = 0} :
          IF empty
          THEN Return(t, "0")
          ELSE /\ stack' = SetTop(t, [Top(t) EXCEPT !.pc = "lock_subs"])
               /\ lockRes' = NoLockRes
    /\ UNCHANGED <<mutex_, subs_mtx_, topics_, subscribers_>>

\* Topic::notify(): one s.q->send of the loop over subs_copy.  The receiver's
\* send may itself call subscribe or unsubscribe on the bus, on this task
lkNotifySend(t) ==
    /\ InCall(t)
    /\ Top(t).pc = "send"
    /\ Top(t).i <= Len(Top(t).subs_copy)
    /\ LET sent == SetTop(t, [Top(t) EXCEPT !.i = @ + 1]) IN
       \/ stack' = sent
       \/ \E op \in {"subscribe", "unsubscribe"}, rcv \in Receivers :
             stack' = Push(sent, t, Frame(op, "lock_map", rcv, Null))
    /\ lockRes' = NoLockRes
    /\ UNCHANGED <<mutex_, subs_mtx_, access, topics_, subscribers_>>

\* Topic::notify(): the end of the loop and `return errors`
lkNotifyReturn(t) ==
    /\ InCall(t)
    /\ Top(t).pc = "send"
    /\ Top(t).i > Len(Top(t).subs_copy)
    /\ Return(t, "sent")
    /\ UNCHANGED <<mutex_, subs_mtx_, access, topics_, subscribers_>>

LockRest == UNCHANGED <<schedVars, data, busRes, notifyFrame, libVars>>

LkCall == (\E t \in Threads : lkCall(t)) /\ LockRest
LkLockMap == (\E t \in Threads : lkLockMap(t)) /\ LockRest
LkMap == (\E t \in Threads : lkMap(t)) /\ LockRest
LkLockSubs == (\E t \in Threads : lkLockSubs(t)) /\ LockRest
LkSubs == (\E t \in Threads : lkSubs(t)) /\ LockRest
LkNotifySize == (\E t \in Threads : lkNotifySize(t)) /\ LockRest
LkNotifySend == (\E t \in Threads : lkNotifySend(t)) /\ LockRest
LkNotifyReturn == (\E t \in Threads : lkNotifyReturn(t)) /\ LockRest

LockNext ==
    \/ LkCall
    \/ LkLockMap
    \/ LkMap
    \/ LkLockSubs
    \/ LkSubs
    \/ LkNotifySize
    \/ LkNotifySend
    \/ LkNotifyReturn

\* ---------------------------------------------------------------------------
\* The scheduler's requests as bytes in its message buffer
\* ---------------------------------------------------------------------------

\* sizeof(SchedulerCmd), an enum class on uint8_t
sizeofSchedulerCmd == 1

\* The layout of a QMsg<SchedulerCmd, SMsg*> object: cmd at offset 0, data at
\* the next offset that is a multiple of alignof(SMsg*) = sizeof(SMsg*)
offsetofSMsgPtr == ((sizeofSchedulerCmd + sizeofPtr - 1) \div sizeofPtr) * sizeofPtr

\* QMsg<SchedulerCmd, SMsg*>::size(): sizeof(C) + sizeof(D)
RequestSize == sizeofSchedulerCmd + sizeofPtr

\* The template argument of MsgSchedulerTask's base class,
\* sizeof(QMsg<SchedulerCmd, SMsg>*): the size of a pointer
MaxMsgSize == sizeofPtr

\* Messages the buffer holds (buf_cap of the constructor, counted in messages)
WireCap == 2

CmdByte(cmd) == IF cmd = "add" THEN 0 ELSE 1

\* The object representation of QMsg<SchedulerCmd, SMsg*>(cmd, h); pad: the
\* value of the padding bytes between cmd and data, which nothing sets
RequestBytes(cmd, h, pad) ==
    <<CmdByte(cmd)>> \o [k \in 1 .. offsetofSMsgPtr - sizeofSchedulerCmd |-> pad]
                     \o PtrBytes(h)

\* Values the padding bytes may hold
PadBytes == {0, 255}

\* A message of len bytes sent by another task through IRtosMsgReceiver
RawBytes(len) == [k \in 1 .. len |-> 7]

\* The scheduler task's buffer: wire, the messages in its RtosMsgBuffer as
\* bytes; res, the send or receive that returned in the last step
FrameNew == [wire |-> <<>>, res |-> [op |-> "none"]]
frame == Obj("frame", FrameNew)
wire == frame.wire
frameRes == frame.res

\* RtosMsgBufferTask::send(data, len): refuses a len above MaxMsgSize, else
\* hands the first len bytes at data to the buffer, which takes them if it
\* has room
send(op, cmd, h, obj, len) ==
    LET fits == len <= MaxMsgSize
        room == Len(wire) < WireCap
    IN  objs' = Put("frame",
            [wire |-> IF fits /\ room THEN Append(wire, SubSeq(obj, 1, len)) ELSE wire,
             res  |-> [op |-> op, cmd |-> cmd, h |-> h, len |-> len,
                       obj |-> obj, refused |-> ~fits, ok |-> fits /\ room]])

\* schedule() and cancel(): QMsg<SchedulerCmd, SMsg*> msg(cmd, h);
\* send(&msg, msg.size())
frSchedule(h, pad) ==
    send("schedule", "add", h, RequestBytes("add", h, pad), RequestSize)
frCancel(h, pad) ==
    send("cancel", "cancel", h, RequestBytes("cancel", h, pad), RequestSize)

\* Another task sends len bytes to the scheduler task's receiver
frSendRaw(len) == send("send", "-", Null, RawBytes(len), len)

\* taskLoop: _msgQueue.receive(_msg, sizeof(_msg), wait_ms), returning len,
\* and the span data of the first len bytes of _msg.  A message longer than
\* the buffer passed stays where it is and 0 is returned; with no message
\* the call times out and returns 0
frReceive ==
    LET has  == wire # <<>>
        fits == has /\ Len(Head(wire)) <= MaxMsgSize
    IN  objs' = Put("frame",
            [wire |-> IF fits THEN Tail(wire) ELSE wire,
             res  |-> [op |-> "receive",
                       len |-> IF fits THEN Len(Head(wire)) ELSE 0,
                       data |-> IF fits THEN Head(wire) ELSE <<>>]])

FrSchedule == (\E h \in Handles, pad \in PadBytes : frSchedule(h, pad)) /\ LibRest
FrCancel == (\E h \in Handles, pad \in PadBytes : frCancel(h, pad)) /\ LibRest
FrSendRaw == (\E len \in 1 .. MaxMsgSize + 1 : frSendRaw(len)) /\ LibRest
FrReceive == frReceive /\ LibRest

FrameNext ==
    \/ FrSchedule
    \/ FrCancel
    \/ FrSendRaw
    \/ FrReceive

\* ---------------------------------------------------------------------------
\* RtosMsgBufferTask::taskLoop and its timeout cadence
\* ---------------------------------------------------------------------------

\* Millis::max(), the value that means "no timeout"
TASK_WAIT_FOREVER == -1

\* Ticks of HighResClock in one millisecond
TicksPerMs == 2

\* The clock values followed
MaxClock == 8

\* The longest a handler runs, in ticks
MaxRun == 3

\* The finite timeouts handed to receiveTimeout()
LoopPeriods == {0, 1, 2}

\* duration_cast<Clock::duration>(Millis) and duration_cast<Millis>(duration),
\* the second for a duration that is not negative
to_ticks(ms) == ms * TicksPerMs
to_millis(d) == d \div TicksPerMs

NoLoopRes == [branch |-> "none"]

\* The task as its constructor leaves it.  clock: HighResClock::now() in
\* ticks; receiveTimeoutMs: _receiveTimeoutMs; loop: taskLoop's position and,
\* once entered, its locals period, has_deadline, next_deadline; res: what
\* the last iteration of taskLoop did
LoopNew == [clock |-> 0, receiveTimeoutMs |-> TASK_WAIT_FOREVER,
            loop |-> [pc |-> "entry"], res |-> NoLoopRes]
loopTask == Obj("loop", LoopNew)
clock == loopTask.clock
tl_receiveTimeoutMs == loopTask.receiveTimeoutMs
loop == loopTask.loop
loopRes == loopTask.res

\* The task after a step: the clock, the timeout, the locals, the record
SetLoop(c, t, l, r) ==
    objs' = Put("loop", [clock |-> c, receiveTimeoutMs |-> t, loop |-> l, res |-> r])

\* The block a receive() starts with: how long to wait, in milliseconds
wait_ms(l, n) ==
    IF l.has_deadline
    THEN IF l.next_deadline - n < 0 THEN 0 ELSE to_millis(l.next_deadline - n)
    ELSE TASK_WAIT_FOREVER

\* receiveTimeout(q), called before start() or by taskEntry()
loopReceiveTimeout(q) ==
    /\ loop.pc = "entry"
    /\ SetLoop(clock, q, loop, NoLoopRes)

\* The statements of taskLoop before its while loop
loopEnter ==
    /\ loop.pc = "entry"
    /\ SetLoop(clock, tl_receiveTimeoutMs,
               [pc |-> "loop", period |-> tl_receiveTimeoutMs,
                has_deadline |-> tl_receiveTimeoutMs # TASK_WAIT_FOREVER,
                next_deadline |-> IF tl_receiveTimeoutMs # TASK_WAIT_FOREVER
                                  THEN clock + to_ticks(tl_receiveTimeoutMs) ELSE 0],
               NoLoopRes)

\* The locals after the message branch, the handler having left the timeout
\* new_period and returned at clock value n
afterMessage(l, new_period, n) ==
    IF new_period = TASK_WAIT_FOREVER
    THEN [l EXCEPT !.has_deadline = FALSE]
    ELSE IF ~l.has_deadline \/ new_period # l.period
         THEN [l EXCEPT !.has_deadline = TRUE, !.period = new_period,
                        !.next_deadline = n + to_ticks(new_period)]
         ELSE l

\* One iteration in which receive() returns a message d ticks after it was
\* called; handleMessage runs r ticks and leaves the timeout q
loopMessage(d, r, q) ==
    /\ loop.pc = "loop"
    /\ loop.has_deadline => d <= to_ticks(wait_ms(loop, clock))
    /\ clock + d + r <= MaxClock
    /\ SetLoop(clock + d + r, q, afterMessage(loop, q, clock + d + r),
               [branch |-> "message", p |-> tl_receiveTimeoutMs, q |-> q,
                deadline |-> loop.next_deadline, had |-> loop.has_deadline,
                after |-> clock + d + r])

\* What behind_ms.count() / period.count() gives: the quotient, or for a
\* period of 0 (the behaviour is undefined) a trap or the quotient the
\* divide instruction leaves
Quotients(behind, period) ==
    IF period # 0
    THEN {[trap |-> FALSE, value |-> behind \div period]}
    ELSE {[trap |-> TRUE, value |-> 0]} \cup {[trap |-> FALSE, value |-> v] : v \in {-1, 0}}

\* The locals after the timeout branch, the handler having left the timeout
\* new_period and returned at clock value after; quot: the quotient of the
\* overrun branch
afterTimeout(l, new_period, after, quot) ==
    IF new_period = TASK_WAIT_FOREVER
    THEN [l EXCEPT !.has_deadline = FALSE]
    ELSE IF new_period # l.period
         THEN [l EXCEPT !.period = new_period,
                        !.next_deadline = after + to_ticks(new_period)]
         ELSE IF after > l.next_deadline
              THEN IF quot.trap
                   THEN [l EXCEPT !.pc = "trapped"]
                   ELSE [l EXCEPT !.next_deadline =
                                     @ + to_ticks(l.period * (quot.value + 1))]
              ELSE [l EXCEPT !.next_deadline = @ + to_ticks(l.period)]

\* Whether the timeout branch reaches its overrun part
Overrun(l, new_period, after) ==
    /\ new_period # TASK_WAIT_FOREVER
    /\ new_period = l.period
    /\ after > l.next_deadline

\* One iteration in which receive() times out, j ticks after the wait it was
\* given; handleTimeout runs r ticks and leaves the timeout q
loopTimeout(j, r, q) ==
    /\ loop.pc = "loop"
    /\ loop.has_deadline
    /\ LET after == clock + to_ticks(wait_ms(loop, clock)) + j + r
           over  == Overrun(loop, q, after)
       IN  /\ after <= MaxClock
           /\ \E quot \in IF over
                          THEN Quotients(to_millis(after - loop.next_deadline), loop.period)
                          ELSE {[trap |-> FALSE, value |-> 0]} :
                SetLoop(after, q, afterTimeout(loop, q, after, quot),
                        [branch |-> "timeout", p |-> tl_receiveTimeoutMs, q |-> q,
                         deadline |-> loop.next_deadline, had |-> TRUE,
                         after |-> after, error |-> over, quot |-> quot])

LoopReceiveTimeout == (\E q \in LoopPeriods : loopReceiveTimeout(q)) /\ LibRest
LoopEnter == loopEnter /\ LibRest
LoopMessage ==
    /\ \E d \in 0 .. MaxRun, r \in 0 .. MaxRun,
          q \in LoopPeriods \cup {TASK_WAIT_FOREVER} : loopMessage(d, r, q)
    /\ LibRest
LoopTimeout ==
    /\ \E j \in 0 .. 1, r \in 0 .. MaxRun,
          q \in LoopPeriods \cup {TASK_WAIT_FOREVER} : loopTimeout(j, r, q)
    /\ LibRest

LoopNext ==
    \/ LoopReceiveTimeout
    \/ LoopEnter
    \/ LoopMessage
    \/ LoopTimeout

\* ---------------------------------------------------------------------------
\* RingBuffer
\* ---------------------------------------------------------------------------

\* ElementCount of the StaticRingBuffer followed
RingCap == 3

\* capacity(): buffer_size / sizeof(T), fixed by initialize()
_capacity == RingCap

\* The values pushed; Unset is what the storage holds before any push
RingValues == {1, 2}
Unset == 0

\* The largest max handed to pop_n
MaxPopN == RingCap + 1

min(a, b) == IF a < b THEN a ELSE b

\* next(i) and oldestIndexUnlocked(), on the members given
next(i) == (i + 1) % _capacity
\* An oldest index that is right only for a full buffer
oldestIndexIsHead(head, count) == head % _capacity
oldestIndexUnlocked(head, count) == (head + _capacity - count) % _capacity

\* The reference queue's pop_n: min(size, max) successive pops
RECURSIVE RefPops(_, _)
RefPops(q, n) ==
    IF n = 0 \/ q = <<>> THEN [out |-> <<>>, rest |-> q]
    ELSE LET r == RefPops(Tail(q), n - 1)
         IN  [out |-> <<Head(q)>> \o r.out, rest |-> r.rest]

RingRes(op, ret, out, refRet, refOut) ==
    [op |-> op, ret |-> ret, out |-> out, refRet |-> refRet, refOut |-> refOut]

\* RingBuffer(): no storage yet.  fifo is the queue the buffer stands for,
\* res what the last call returned beside what a queue returns
RingNew == [data |-> <<>>, head |-> 0, count |-> 0, fifo |-> <<>>,
            res |-> [op |-> "none"]]
ring == Obj("ring", RingNew)
_data == ring.data
_head == ring.head
_count == ring.count
fifo == ring.fifo
ringRes == ring.res

\* The elements held, oldest first (operator[] for 0 .. size() - 1)
Contents ==
    [i \in 1 .. _count |->
        _data[(oldestIndexUnlocked(_head, _count) + (i - 1)) % _capacity]]

\* The buffer after a call: _data, _head, _count, the queue, the record
SetRing(d, h, c, f, r) ==
    objs' = Put("ring", [data |-> d, head |-> h, count |-> c, fifo |-> f, res |-> r])

\* initialize(buffer, buffer_size), as StaticRingBuffer's constructor calls
\* it on its own storage
initialize ==
    /\ _data = <<>>
    /\ SetRing([i \in 0 .. _capacity - 1 |-> Unset], 0, 0, <<>>,
               RingRes("initialize", 0, <<>>, 0, <<>>))

\* The calls below are made on an initialized buffer (assert(_capacity && _data))
Initialized == _data # <<>>

\* reset()
rbReset ==
    /\ Initialized
    /\ SetRing(_data, 0, 0, <<>>, RingRes("reset", 0, <<>>, 0, <<>>))

\* push(value): refused when full
push(value) ==
    LET f == IF Len(fifo) = RingCap THEN fifo ELSE Append(fifo, value)
        r == RingRes("push", _count # _capacity, <<value>>,
                     Len(fifo) # RingCap, <<value>>)
    IN  /\ Initialized
        /\ IF _count = _capacity
           THEN SetRing(_data, _head, _count, f, r)
           ELSE SetRing([_data EXCEPT ![_head] = value], next(_head), _count + 1, f, r)

\* push_overwrite(value)
push_overwrite(value) ==
    /\ Initialized
    /\ SetRing([_data EXCEPT ![_head] = value], next(_head),
               IF _count < _capacity THEN _count + 1 ELSE _count,
               IF Len(fifo) = RingCap THEN Append(Tail(fifo), value)
               ELSE Append(fifo, value),
               RingRes("push_overwrite", Len(fifo) = RingCap, <<value>>,
                       Len(fifo) = RingCap, <<value>>))

\* pop(out): false when empty, else out is the oldest element
pop ==
    LET tail == oldestIndexUnlocked(_head, _count) IN
    /\ Initialized
    /\ SetRing(_data, _head,
               IF _count = 0 THEN 0 ELSE _count - 1,
               IF fifo = <<>> THEN fifo ELSE Tail(fifo),
               RingRes("pop", _count # 0,
                       IF _count = 0 THEN <<>> ELSE <<_data[tail]>>,
                       fifo # <<>>,
                       IF fifo = <<>> THEN <<>> ELSE <<Head(fifo)>>))

\* pop_n(out, max): the two copy loops, up to the end of the storage and
\* from its start
pop_n(max) ==
    LET n        == IF _count = 0 \/ max = 0 THEN 0 ELSE min(_count, max)
        tail     == oldestIndexUnlocked(_head, _count)
        till_end == _capacity - tail
        first    == IF n > till_end THEN till_end ELSE n
        second   == n - first
        out      == [i \in 1 .. first |-> _data[tail + (i - 1)]]
                       \o [i \in 1 .. second |-> _data[i - 1]]
        ref      == RefPops(fifo, min(Len(fifo), max))
    IN  /\ Initialized
        /\ SetRing(_data, _head, _count - n, ref.rest,
                   RingRes("pop_n", n, out, Len(ref.out), ref.out))

RbInitialize == initialize /\ LibRest
RbReset == rbReset /\ LibRest
RbPush == (\E v \in RingValues : push(v)) /\ LibRest
RbPushOverwrite == (\E v \in RingValues : push_overwrite(v)) /\ LibRest
RbPop == pop /\ LibRest
RbPopN == (\E max \in 0 .. MaxPopN : pop_n(max)) /\ LibRest

RingNext ==
    \/ RbInitialize
    \/ RbReset
    \/ RbPush
    \/ RbPushOverwrite
    \/ RbPop
    \/ RbPopN

\* ---------------------------------------------------------------------------
\* envelope: debounced limit rules and their aggregator
\* ---------------------------------------------------------------------------

\* N of Envelope<T, N, Time>
EnvN == 2

\* Time::rep is an unsigned integer of so many values: time is kept modulo it
TimeWrap == 4

\* The sample times followed, and the longest step between two samples
MaxEnvTime == 5
MaxStep == 2

\* The delays, the threshold and the sample values used
MaxDebounce == 2
Threshold == 1
Samples == {0, 1, 2}

\* Result::NO_VIOLATION
NO_VIOLATION == 255

RuleIdx == 0 .. EnvN - 1

\* A slot of the Envelope no rule is bound at
NoRule == [kind |-> "none"]

\* A rule object as its builder leaves it: Above (hi = th) or Below (lo = th)
\* with policy Bounds<inclusive>, the delays and Debounce's initial state
Rule(kind, inclusive, th, enter_delay, exit_delay) ==
    [kind |-> kind, inclusive |-> inclusive, th |-> th,
     enter_delay |-> enter_delay, exit_delay |-> exit_delay,
     violating |-> FALSE, enter_pending |-> FALSE, exit_pending |-> FALSE,
     enter_since |-> 0, exit_since |-> 0]

\* NORMAL_BELOW builds an Above rule, NORMAL_ABOVE a Below rule
NORMAL_BELOW(inclusive, th, enter_delay, exit_delay) ==
    Rule("Above", inclusive, th, enter_delay, exit_delay)
NORMAL_ABOVE(inclusive, th, enter_delay, exit_delay) ==
    Rule("Below", inclusive, th, enter_delay, exit_delay)

\* Bounds<Inclusive>::below_ok and above_ok
below_ok(inclusive, v, hi) == IF inclusive THEN v <= hi ELSE v < hi
above_ok(inclusive, v, lo) == IF inclusive THEN v >= lo ELSE v > lo

\* The immediate condition operator() computes
cond_now(r, v) ==
    IF r.kind = "Above" THEN ~below_ok(r.inclusive, v, r.th)
    ELSE ~above_ok(r.inclusive, v, r.th)

\* elapsed(now, since) on the unsigned rep
elapsed(tnow, since) == (tnow - since) % TimeWrap

Stepped(r, out) == [rule |-> r, out |-> out]

\* A step() that keeps a pending timer running across an opposite sample
stepKeepsTimer(r, c, tnow) ==
    IF c
    THEN IF r.violating THEN Stepped(r, TRUE)
         ELSE LET r2 == IF ~r.enter_pending
                        THEN [r EXCEPT !.enter_pending = TRUE, !.enter_since = tnow]
                        ELSE r
              IN  IF elapsed(tnow, r2.enter_since) >= r2.enter_delay
                  THEN Stepped([r2 EXCEPT !.enter_pending = FALSE,
                                          !.violating = TRUE], TRUE)
                  ELSE Stepped(r2, FALSE)
    ELSE IF ~r.violating THEN Stepped(r, FALSE)
         ELSE LET r2 == IF ~r.exit_pending
                        THEN [r EXCEPT !.exit_pending = TRUE, !.exit_since = tnow]
                        ELSE r
              IN  IF elapsed(tnow, r2.exit_since) >= r2.exit_delay
                  THEN Stepped([r2 EXCEPT !.exit_pending = FALSE,
                                          !.violating = FALSE], FALSE)
                  ELSE Stepped(r2, TRUE)

\* Debounce::step(cond_now, now): the rule afterwards and what it returns
step(r, c, tnow) ==
    IF c
    THEN LET r1 == [r EXCEPT !.exit_pending = FALSE] IN
         IF r1.violating THEN Stepped(r1, TRUE)
         ELSE LET r2 == IF ~r1.enter_pending
                        THEN [r1 EXCEPT !.enter_pending = TRUE, !.enter_since = tnow]
                        ELSE r1
              IN  IF elapsed(tnow, r2.enter_since) >= r2.enter_delay
                  THEN Stepped([r2 EXCEPT !.enter_pending = FALSE,
                                          !.violating = TRUE], TRUE)
                  ELSE Stepped(r2, FALSE)
    ELSE LET r1 == [r EXCEPT !.enter_pending = FALSE] IN
         IF ~r1.violating THEN Stepped(r1, FALSE)
         ELSE LET r2 == IF ~r1.exit_pending
                        THEN [r1 EXCEPT !.exit_pending = TRUE, !.exit_since = tnow]
                        ELSE r1
              IN  IF elapsed(tnow, r2.exit_since) >= r2.exit_delay
                  THEN Stepped([r2 EXCEPT !.exit_pending = FALSE,
                                          !.violating = FALSE], FALSE)
                  ELSE Stepped(r2, TRUE)

\* Above::operator() and Below::operator()
call_rule(r, v, tnow) == step(r, cond_now(r, v), tnow)

\* The loop of Envelope::update from index i: the rules afterwards, the
\* Result, and the rules whose operator() was called
RECURSIVE updateLoop(_, _, _, _, _)
updateLoop(rs, i, v, tnow, called) ==
    IF i = EnvN
    THEN [rules |-> rs, result |-> [state |-> "Normal", index |-> NO_VIOLATION],
          called |-> called]
    ELSE IF rs[i] # NoRule
         THEN LET s == call_rule(rs[i], v, tnow) IN
              IF s.out
              THEN [rules |-> [rs EXCEPT ![i] = s.rule],
                    result |-> [state |-> "Violation", index |-> i],
                    called |-> called \cup {i}]
              ELSE updateLoop([rs EXCEPT ![i] = s.rule], i + 1, v, tnow,
                              called \cup {i})
         ELSE updateLoop(rs, i + 1, v, tnow, called)

\* The condition c seen at time t, added to what was seen before: the time
\* the run of equal conditions began stays, or a new run begins
Track(g, c, t) ==
    IF g.seen /\ g.cond = c THEN g ELSE [seen |-> TRUE, cond |-> c, since |-> t]
NoRun == [seen |-> FALSE]

\* Envelope(): no rule bound.  now: the time of the last sample; run, held:
\* since when each rule's condition has been violated, as far as the rule was
\* called (run) and as far as the samples went (held); res: the last call
EnvNew == [rules |-> [i \in RuleIdx |-> NoRule], now |-> 0,
           run |-> [i \in RuleIdx |-> NoRun], held |-> [i \in RuleIdx |-> NoRun],
           res |-> [op |-> "none"]]
envelope == Obj("env", EnvNew)
rules == envelope.rules
envNow == envelope.now
run == envelope.run
held == envelope.held
envRes == envelope.res

\* The envelope after a call: the rules, the time, the two trackers, the record
SetEnv(rs, t, rn, hd, r) ==
    objs' = Put("env", [rules |-> rs, now |-> t, run |-> rn, held |-> hd, res |-> r])

\* A rule built by NORMAL_BELOW or NORMAL_ABOVE, and bound at the free slot i
bind(i, r) ==
    /\ rules[i] = NoRule
    /\ SetEnv([rules EXCEPT ![i] = r], envNow, run, held, [op |-> "bind", i |-> i])

Built ==
    {NORMAL_BELOW(b, Threshold, e, x) : b \in BOOLEAN, e \in 0 .. MaxDebounce,
                                        x \in 0 .. MaxDebounce}
    \cup {NORMAL_ABOVE(b, Threshold, e, x) : b \in BOOLEAN, e \in 0 .. MaxDebounce,
                                             x \in 0 .. MaxDebounce}

\* rule(v, now) on the rule object at slot 0, dt after the last sample
ruleCall(v, dt) ==
    /\ rules[0] # NoRule
    /\ envNow + dt <= MaxEnvTime
    /\ LET s == call_rule(rules[0], v, (envNow + dt) % TimeWrap)
           c == cond_now(rules[0], v)
       IN  SetEnv([rules EXCEPT ![0] = s.rule], envNow + dt,
                  [run EXCEPT ![0] = Track(@, c, envNow + dt)],
                  [held EXCEPT ![0] = Track(@, c, envNow + dt)],
                  [op |-> "call", v |-> v, out |-> s.out, cond |-> c,
                   was |-> rules[0].violating])

\* env.update(v, now), dt after the last sample
update(v, dt) ==
    /\ envNow + dt <= MaxEnvTime
    /\ LET u == updateLoop(rules, 0, v, (envNow + dt) % TimeWrap, {}) IN
       SetEnv(u.rules, envNow + dt,
              [i \in RuleIdx |->
                 IF i \in u.called
                 THEN Track(run[i], cond_now(rules[i], v), envNow + dt)
                 ELSE run[i]],
              [i \in RuleIdx |->
                 IF rules[i] # NoRule
                 THEN Track(held[i], cond_now(rules[i], v), envNow + dt)
                 ELSE held[i]],
              [op |-> "update", v |-> v, result |-> u.result,
               called |-> u.called])

DbBuild == (\E r \in Built : bind(0, r)) /\ LibRest
DbCall == (\E v \in Samples, dt \in 0 .. MaxStep : ruleCall(v, dt)) /\ LibRest

DebounceNext ==
    \/ DbBuild
    \/ DbCall

\* The rules bound in an Envelope: default policy, an enter delay of 0 or
\* MaxDebounce, no exit delay
Bindable ==
    {r \in Built : /\ ~r.inclusive
                   /\ r.enter_delay \in {0, MaxDebounce}
                   /\ r.exit_delay = 0}

EnvBind == (\E i \in RuleIdx, r \in Bindable : bind(i, r)) /\ LibRest
EnvUpdate == (\E v \in Samples, dt \in 0 .. MaxStep : update(v, dt)) /\ LibRest

EnvelopeNext ==
    \/ EnvBind
    \/ EnvUpdate

LibInit == objs = <<>>

Init == SchedInit /\ BusInit /\ LockInit /\ LibInit

Spec == Init /\ [][SchedNext]_vars

BusSpec == Init /\ [][BusNext]_vars

OrderSpec == Init /\ [][OrderNext]_vars

AliasSpec == Init /\ [][AliasNext]_vars

\* The scheduler task's message buffer, its senders and the task loop
FrameSpec == Init /\ [][FrameNext]_vars

\* A task built on RtosMsgBufferTask with a receive timeout
LoopSpec == Init /\ [][LoopNext]_vars

\* A StaticRingBuffer and the calls made on it
RingSpec == Init /\ [][RingNext]_vars

\* One debounced rule, called with a sample at a time
DebounceSpec == Init /\ [][DebounceNext]_vars

\* An Envelope of two slots, the rules bound at them and its updates
EnvelopeSpec == Init /\ [][EnvelopeNext]_vars

\* Two tasks calling the bus, interleaved at every mutex
LockSpec == Init /\ [][LockNext]_vars

\* The scheduler with its task and the clock running: the task loop takes its
\* next step whenever receive() can return, and time passes while it is blocked
LiveSpec ==
    /\ Init
    /\ [][SchedNext]_vars
    /\ WF_vars(TaskReceive)
    /\ WF_vars(TaskTimeout)
    /\ WF_vars(ClockTick)

-----------------------------------------------------------------------------
(***************************************************************************)
(* Claims about the scheduler (checked under Spec).                        *)
(***************************************************************************)

\* The pending entries and the requests waiting in the inbound buffer
Pending == Elems(_list)
QueuedAdd == {_msgQueue[i].data :
                i \in {j \in 1 .. Len(_msgQueue) : _msgQueue[j].cmd = "add"}}

\* C1: every pending entry is fired when the clock reaches its next-fire time:
\* the clock never passes the nextTime of an entry that is still in the
\* pending list (the scheduler never sleeps past the earliest deadline).
C1_NoMissedDeadline == \A h \in Pending : heap[h].nextTime >= now

\* C3: a one-shot entry is sent exactly once; it is then out of the pending
\* list for good and is never sent again.  An entry that is still pending or
\* queued has not been sent, an entry that was sent is in neither the list
\* nor the inbound buffer, no entry is sent twice, and an entry leaves the
\* list unsent only when a cancel request for it was handled.
C3_OneShotFiresOnce ==
    \A h \in Handles :
        /\ sends[h] <= 1
        /\ (heap[h].alloc /\ heap[h].live /\ ~heap[h].periodic) => sends[h] = 0
        /\ sends[h] = 1 => /\ heap[h] = Leaked
                           /\ h \notin Pending
                           /\ h \notin QueuedAdd
        /\ (heap[h] = Leaked /\ h \notin cancelled) => sends[h] = 1

\* C3 witness: a one-shot entry has been sent and removed while another entry
\* is still pending and the clock has moved on
C3_Witness ==
    \E h \in Handles :
        /\ sends[h] = 1
        /\ h \notin cancelled
        /\ Pending # {}
        /\ now = MaxTime

\* C4: of two pending entries the one with the earlier deadline is delivered
\* first: no entry is sent while another pending entry has an earlier nextTime.
C4_EarlierDeadlineFirst == overtaken = {}

\* C5: a periodic entry fires at delay, 2*delay, 3*delay, ... after it was
\* scheduled: it is never sent later than the nextTime computed for it.
C5_PeriodicOnCadence ==
    \A h \in lateSent : ~(heap[h].live /\ heap[h].periodic /\ heap[h].period > 0)

\* C6: once a cancel request for a handle has been handled, the entry is not
\* in the pending list, is not waiting to be added, and is not sent.
C6_CancelledStaysOut ==
    \A h \in cancelled :
        /\ h \notin Pending
        /\ h \notin QueuedAdd
        /\ h \notin Elems(lastSent)

\* C6 witness: a cancel removed a pending entry that had not been sent, and the
\* clock has since run past every deadline the entry could have had
C6_Witness ==
    \E h \in cancelled :
        /\ heap[h] = Leaked
        /\ sends[h] = 0
        /\ now = MaxTime

\* C12: when a scheduled entry fires, the bytes the scheduler passes to the
\* receiver's send are the payload bytes, in the length, that schedule() was
\* handed for that entry.
C12_SendsScheduledPayload ==
    \A i \in 1 .. Len(lastBytes) : lastBytes[i].bytes = lastBytes[i].given

\* C18: a schedule() call with a null payload pointer or a length of 0
\* returns null and changes nothing: no entry is allocated, no request is
\* enqueued, and the pending list, the receive timeout and the entries are
\* as before.
C18_InvalidScheduleRejected ==
    [][(schedRes'.op = "schedule" /\ ~schedRes'.valid) =>
         /\ schedRes'.ret = Null
         /\ ~schedRes'.sent
         /\ heap' = heap
         /\ _msgQueue' = _msgQueue
         /\ _list' = _list
         /\ _receiveTimeoutMs' = _receiveTimeoutMs]_vars

\* C18 witness: an invalid schedule() returned null while an entry was pending,
\* a request was waiting in the buffer and an address was free
C18_Witness ==
    /\ schedRes.op = "schedule"
    /\ ~schedRes.valid
    /\ schedRes.ret = Null
    /\ _list # <<>>
    /\ _msgQueue # <<>>
    /\ FreeHandles # {}

\* C19: when the add request cannot be enqueued because the inbound buffer
\* is full, schedule() returns null and leaves no entry behind: nothing stays
\* allocated, the buffer and the pending list are as before and nothing is
\* sent; every entry that is pending or waiting to be added is one whose
\* schedule() call succeeded.
C19_FullChannelFreesEntry ==
    /\ [](\A h \in Pending \cup QueuedAdd : heap[h].alloc /\ heap[h].live)
    /\ [][(schedRes'.op = "schedule" /\ schedRes'.valid /\ ~schedRes'.sent) =>
            /\ schedRes'.ret = Null
            /\ Len(_msgQueue) >= ChanCap
            /\ heap' = heap
            /\ _msgQueue' = _msgQueue
            /\ _list' = _list
            /\ lastSent' = <<>>]_vars

\* C19 witness: a valid schedule() returned null with the buffer full, while
\* an address was free for the entry it had allocated and deleted
C19_Witness ==
    /\ schedRes.op = "schedule"
    /\ schedRes.valid
    /\ ~schedRes.sent
    /\ schedRes.ret = Null
    /\ FreeHandles # {}
    /\ Len(_msgQueue) = ChanCap

\* handleMessage was given, in the step, a cancel request that had been
\* enqueued while the add request for its handle was still in the buffer
EarlyCancelHandled ==
    /\ schedRes'.op = "handleMessage"
    /\ schedRes'.msg.cmd = "cancel"
    /\ schedRes'.msg.early

EarliestNext ==
    CHOOSE m \in {heap[h].nextTime : h \in Pending} :
        \A h \in Pending : m <= heap[h].nextTime

\* C28: the receive timeout the task blocks with, set when it last finished
\* handling a request or a timeout (at time waitStart), is
\* max(0, earliest nextTime of the pending entries - that time) when the list
\* is not empty, and wait-forever when it is empty.
C28_TimeoutIsEarliest ==
    IF _list = <<>>
    THEN _receiveTimeoutMs = RTOS_TASK_WAIT_FOREVER
    ELSE _receiveTimeoutMs = IF EarliestNext > waitStart
                             THEN EarliestNext - waitStart ELSE 0

\* C29: whenever the task blocks in receive(), the pending list is in
\* ascending order of nextTime.
C29_ListSorted ==
    \A i, j \in 1 .. Len(_list) :
        i < j => heap[_list[i]].nextTime <= heap[_list[j]].nextTime

\* handleMessage was given, in the step, the request (cancel, h)
CancelHandled(h) ==
    /\ schedRes'.op = "handleMessage"
    /\ schedRes'.msg.cmd = "cancel"
    /\ schedRes'.msg.data = h

C30_WitnessAbsent ==
    /\ schedRes.op = "handleMessage"
    /\ schedRes.msg.cmd = "cancel"
    /\ sends[schedRes.msg.data] = 1
    /\ _list # <<>>

\* receive() times out at once and handleTimeout leaves the task where it was:
\* the same entries, the same list and a receive timeout of 0 at the same
\* clock value, so that the wake-up repeats until a request arrives
Spinning ==
    /\ _msgQueue = <<>>
    /\ _receiveTimeoutMs = 0
    /\ LET r == handleTimeout(heap, _list, now)
       IN  /\ r.timeout = 0
           /\ r.heap = heap
           /\ r.list = _list

\* C21: the scheduler never busy-polls: it is never in a state from which
\* its timeout wake-ups repeat without end while the clock stands still.
C21_NeverBusyPolls == ~Spinning

C33_FailedSendNotRetried ==
    [][/\ Len(sendOk') = Len(lastSent')
       /\ \A i \in 1 .. Len(lastSent') :
             LET h == lastSent'[i] IN
             /\ \A j \in 1 .. Len(lastSent') : lastSent'[j] = h => j = i
             /\ IF heap[h].periodic
                THEN /\ h \in Elems(_list')
                     /\ heap'[h] = [heap[h] EXCEPT !.nextTime = now + heap[h].period]
                ELSE /\ h \notin Elems(_list')
                     /\ heap'[h] = Leaked
       /\ \A g \in Elems(_list') \ Elems(lastSent') : heap'[g] = heap[g]]_vars

\* A step sent a periodic and a one-shot entry, neither send was accepted:
\* the periodic entry is pending, the one-shot entry is not
C33_Witness ==
    /\ Len(lastSent) = 2
    /\ sendOk = <<FALSE, FALSE>>
    /\ \E i, j \in 1 .. 2 :
          /\ lastSent[i] \in Elems(_list)
          /\ lastSent[j] \notin Elems(_list)
          /\ heap[lastSent[j]] = Leaked

\* C35: an entry that schedule() allocated is released when it leaves the
\* scheduler: no address stays allocated unless its entry is in the pending
\* list or its add request is still in the inbound channel.
C35_ReleasedOnLeaving ==
    \A h \in Handles : heap[h].alloc => h \in Pending \cup QueuedAdd

-----------------------------------------------------------------------------
(***************************************************************************)
(* Claims about the message bus (checked under BusSpec).                   *)
(***************************************************************************)

\* The number of times x occurs in the sequence s
Count(s, x) == Cardinality({i \in 1 .. Len(s) : s[i] = x})

\* The names that are registered
RegisteredNames == {getName(topics_[id]) : id \in DOMAIN topics_}

WriteOps == {"requestWrite", "requestWriteByName"}
SubscribeOps == {"subscribe", "subscribeByName"}

\* C2: notify() returns the number of subscribers of its snapshot whose send
\* failed, so 0 when every send succeeded.
C2_NotifyReturnsFailedSends ==
    busRes.op = "notify" => busRes.ret = busRes.failed

\* C7: subscribe/unsubscribe round trip.  When subscribe returns OK the
\* receiver is in the topic's subscriber list once, when unsubscribe returns
\* OK it is not in it; a notify() sends exactly once to every receiver that
\* was subscribed when it was called and not at all to every receiver that
\* was not (receivers whose subscription changed while it ran aside); in
\* particular it sends once to a receiver whose subscribe returned OK just
\* before it, and never to one whose unsubscribe returned OK just before it.
C7_SubscribeRoundTrip ==
    /\ (busRes.op \in SubscribeOps /\ busRes.result = "OK") =>
          Count([i \in 1 .. Len(subscribers_[busRes.topic]) |->
                    subscribers_[busRes.topic][i].q], busRes.rcv) = 1
    /\ (busRes.op = "unsubscribe" /\ busRes.result = "OK") =>
          busRes.rcv \notin SubscribedTo(busRes.topic)
    /\ busRes.op = "notify" =>
          /\ \A r \in Receivers \ busRes.touched :
                Count(busRes.log, r) = IF r \in busRes.startSubs THEN 1 ELSE 0
          /\ \A r \in Receivers \ busRes.touched :
                /\ (busRes.after \in {<<op, r>> : op \in SubscribeOps}) =>
                      Count(busRes.log, r) = 1
                /\ busRes.after = <<"unsubscribe", r>> => Count(busRes.log, r) = 0

\* C7 witness: a notify() called right after unsubscribe(topic, R1) returned OK
\* has sent once to R2, which is subscribed, and not to R1
C7_Witness ==
    /\ busRes.op = "notify"
    /\ busRes.after = <<"unsubscribe", "R1">>
    /\ busRes.touched = {}
    /\ busRes.log = <<"R2">>

\* The registered topic object a requestWrite is aimed at: the one its id
\* maps to, or the one registered under its name
TopicMeant(op, arg) ==
    IF op = "requestWriteByName"
    THEN CHOOSE o \in {topics_[id] : id \in DOMAIN topics_} : getName(o) = arg
    ELSE topics_[arg]

\* C8: requestWrite<U>, by id or by name, on a registered Topic<T> returns
\* TYPE_MISMATCH when U differs from T, and then the write callback is not
\* invoked and no payload changes; it does not return TYPE_MISMATCH when U is T.
C8_TypeMismatch ==
    [][(busRes'.op \in WriteOps
          /\ busRes'.arg \in (IF busRes'.op = "requestWriteByName"
                              THEN RegisteredNames ELSE DOMAIN topics_)) =>
         /\ (busRes'.result = "TYPE_MISMATCH")
               = (busRes'.U # TypeOf(TopicMeant(busRes'.op, busRes'.arg)))
         /\ busRes'.result = "TYPE_MISMATCH" => (busRes'.cb = <<>> /\ data' = data)]_vars

\* C8, for the calls whose lookup finds the topic: the result is TYPE_MISMATCH
\* exactly when U differs from T, and then the callback is not invoked and no
\* payload changes.
C8_TypeMismatchWhenFound ==
    [][(busRes'.op \in WriteOps /\ busRes'.topic # Null) =>
         /\ (busRes'.result = "TYPE_MISMATCH") = (busRes'.U # TypeOf(busRes'.topic))
         /\ busRes'.result = "TYPE_MISMATCH" => (busRes'.cb = <<>> /\ data' = data)]_vars

\* C9: registerTopic of a topic whose name is already registered returns
\* TOPIC_EXISTS, changes neither the registry, nor a payload, nor a
\* subscriber list, and stores nothing through the caller's output handle.
C9_DuplicateRegistration ==
    [][(busRes'.op = "registerTopic" /\ busRes'.topic # Null
          /\ getName(busRes'.topic) \in RegisteredNames) =>
         /\ busRes'.result = "TOPIC_EXISTS"
         /\ topics_' = topics_
         /\ subscribers_' = subscribers_
         /\ data' = data
         /\ busRes'.out = <<>>]_vars

\* C9 witness: a second topic object with a registered name was refused; the
\* id still maps to the first object, which has a subscriber and a payload
C9_Witness ==
    /\ busRes.op = "registerTopic"
    /\ busRes.result = "TOPIC_EXISTS"
    /\ LET id == fnv1a32(getName(busRes.topic)) IN
          /\ topics_[id] # busRes.topic
          /\ subscribers_[topics_[id]] # <<>>
          /\ data[topics_[id]] # 0

\* C10: a registered topic stays reachable by id and by name: topicId(name)
\* is the id the registry holds for it and never NONE, topicName(id) is the
\* name, and no subscribe or requestWrite by that name or id returns
\* TOPIC_NOT_FOUND.
C10_RegisteredStaysReachable ==
    /\ \A id \in DOMAIN topics_ :
          /\ topicId(getName(topics_[id])) = id
          /\ topicId(getName(topics_[id])) # INVALID_TOPIC_ID
          /\ topicName(id) = getName(topics_[id])
    /\ (busRes.op \in WriteOps \cup SubscribeOps
          /\ busRes.arg \in RegisteredNames \cup DOMAIN topics_) =>
          busRes.result # "TOPIC_NOT_FOUND"


\* C11: every envelope a notify() hands to a subscriber carries as command the
\* id the subscriber subscribed with, as payload the whole of the topic's
\* data() value, and has the length sizeof(command) + sizeof(payload).
C11_EnvelopeCarriesPayload ==
    busRes.op = "notify" =>
        \A i \in 1 .. Len(busRes.env) :
            LET e == busRes.env[i]
                T == TypeOf(busRes.topic)
            IN  /\ e.cmd \in DOMAIN topics_
                /\ topics_[e.cmd] = busRes.topic
                /\ e.value = data[busRes.topic]
                /\ e.carried = sizeofT(T)
                /\ e.len = sizeofCmd + sizeofT(T)

\* C13: toJson(id, buffer) returns TOPIC_NOT_FOUND for an unknown id,
\* JSON_PARSE_FAILED when the topic has no encode hook or the buffer is too
\* small for the encoded value, and OK only when the hook wrote the complete
\* JSON text.
C13_ToJsonResult ==
    busRes.op = "toJson" =>
        LET o == busRes.topic IN
        /\ (busRes.arg \notin DOMAIN topics_) <=> busRes.result = "TOPIC_NOT_FOUND"
        /\ (o # Null /\ ~HasToJsonCb(o)) => busRes.result = "JSON_PARSE_FAILED"
        /\ (o # Null /\ Len(FloatText(data[o])) + 1 > busRes.size)
              => busRes.result = "JSON_PARSE_FAILED"
        /\ busRes.result = "OK" =>
              /\ HasToJsonCb(o)
              /\ busRes.text = FloatText(data[o])

\* The registered topic object a subscribe is aimed at, or Null when the id
\* or the name it is given is not registered
SubscribeTarget(op, arg) ==
    IF op = "subscribeByName"
    THEN IF arg \in RegisteredNames
         THEN CHOOSE o \in {topics_[id] : id \in DOMAIN topics_} : getName(o) = arg
         ELSE Null
    ELSE IF arg \in DOMAIN topics_ THEN topics_[arg] ELSE Null

\* No subscriber list holds the same (receiver, id) pair twice
NoDuplicateSubscription ==
    \A o \in TopicObjs : \A i, j \in 1 .. Len(subscribers_[o]) :
        subscribers_[o][i] = subscribers_[o][j] => i = j

\* C14: subscribe, by id or by name, returns TOPIC_NOT_FOUND for an unknown
\* topic and SUB_EXISTS when the receiver is already subscribed to the topic,
\* and in both cases changes no subscriber list; no subscriber list ever
\* holds the same (receiver, id) pair twice.
C14_SubscribeErrors ==
    /\ []NoDuplicateSubscription
    /\ [][busRes'.op \in SubscribeOps =>
            LET o == SubscribeTarget(busRes'.op, busRes'.arg) IN
            /\ o = Null => busRes'.result = "TOPIC_NOT_FOUND"
            /\ (o # Null /\ busRes'.rcv \in SubscribedTo(o))
                  => busRes'.result = "SUB_EXISTS"
            /\ busRes'.result \in {"TOPIC_NOT_FOUND", "SUB_EXISTS"}
                  => subscribers_' = subscribers_]_vars

\* C15: unsubscribe(id, receiver) returns TOPIC_NOT_FOUND for an unknown id
\* and SUB_NOT_FOUND when the receiver is not subscribed to the topic, and
\* then changes no subscriber list; when it returns OK it has removed that one
\* subscription, the other subscriptions of the topic are in place in their
\* order, and no other topic's list has changed.
C15_UnsubscribeResult ==
    [][busRes'.op = "unsubscribe" =>
         LET id  == busRes'.arg
             sub == [q |-> busRes'.rcv, id |-> busRes'.arg]
         IN
         /\ id \notin DOMAIN topics_ =>
               /\ busRes'.result = "TOPIC_NOT_FOUND"
               /\ subscribers_' = subscribers_
         /\ (id \in DOMAIN topics_ /\ sub \notin Elems(subscribers_[topics_[id]])) =>
               /\ busRes'.result = "SUB_NOT_FOUND"
               /\ subscribers_' = subscribers_
         /\ busRes'.result = "OK" =>
               /\ id \in DOMAIN topics_
               /\ \E k \in 1 .. Len(subscribers_[topics_[id]]) :
                     /\ subscribers_[topics_[id]][k] = sub
                     /\ subscribers_'[topics_[id]]
                           = RemoveAt(subscribers_[topics_[id]], k)
               /\ \A o \in TopicObjs \ {topics_[id]} :
                     subscribers_'[o] = subscribers_[o]]_vars

\* C15 witness: unsubscribe removed R1, which had subscribed first, and R2,
\* which had subscribed after it, is still subscribed to the topic
C15_Witness ==
    /\ busRes.op = "unsubscribe"
    /\ busRes.result = "OK"
    /\ busRes.rcv = "R1"
    /\ SubscribedTo(busRes.topic) = {"R2"}

AllWriteOps == WriteOps \cup {"requestWriteJson"}

\* C16: a requestWrite, typed or JSON, by id or by name, whatever it returns,
\* sends to no subscriber, starts no notify() and leaves every subscriber list
\* as it was; only a notify() sends to subscribers.
C16_WriteNeverNotifies ==
    /\ [](busRes.log # <<>> => busRes.op = "notify")
    /\ [][busRes'.op \in AllWriteOps =>
            /\ busRes'.log = <<>>
            /\ subscribers_' = subscribers_
            /\ notifyFrame' = notifyFrame]_vars

\* C16 witness: a JSON requestWrite returned OK and changed the payload of a
\* topic that has two subscribers
C16_Witness ==
    /\ busRes.op = "requestWriteJson"
    /\ busRes.result = "OK"
    /\ data[busRes.topic] # 0
    /\ Len(subscribers_[busRes.topic]) = 2

\* C17: requestWrite<T>(id, value) on a topic registered with the same T
\* invokes the topic's write callback once and returns OK when the callback
\* returns true and WRITE_FAILED when it returns false; on a topic without a
\* write callback it reports a failure and changes nothing.
C17_WriteCallback ==
    [][(busRes'.op = "requestWrite" /\ busRes'.arg \in DOMAIN topics_
          /\ busRes'.U = TypeOf(topics_[busRes'.arg])) =>
         IF HasWriteCb(topics_[busRes'.arg])
         THEN /\ Len(busRes'.cb) = 1
              /\ busRes'.result = IF busRes'.cb[1] THEN "OK" ELSE "WRITE_FAILED"
         ELSE /\ busRes'.cb = <<>>
              /\ busRes'.result \in {"WRITE_FAILED", "WRITE_NOT_SUPPORTED"}
              /\ data' = data
              /\ subscribers_' = subscribers_
              /\ topics_' = topics_]_vars

\* C17 witness: the write callback of a topic refused a value after it had
\* accepted another, and requestWrite returned WRITE_FAILED
C17_Witness ==
    /\ busRes.op = "requestWrite"
    /\ busRes.cb = <<FALSE>>
    /\ busRes.result = "WRITE_FAILED"
    /\ data[busRes.topic] # 0

\* ---------------------------------------------------------------------------
\* Order of the subscriber list and of delivery (OrderSpec)
\* ---------------------------------------------------------------------------

\* The receivers of a subscriber list, in list order
RcvSeq(subs) == [i \in 1 .. Len(subs) |-> subs[i].q]

\* a stands before b in s
Before(s, a, b) ==
    \E i, j \in 1 .. Len(s) : i < j /\ s[i] = a /\ s[j] = b


\* C23: the subscriber list is kept in the order of subscription (a subscribe
\* that succeeds puts its receiver behind all those already there, an
\* unsubscribe that succeeds takes its receiver out and leaves the others in
\* their order, nothing else changes a list), notify() copies that list as it
\* stands, and the sends of one notify() go to the copied subscribers in list
\* order, oldest first.
C23_DeliveryInSubscriptionOrder ==
    [][/\ \A o \in TopicObjs :
            LET old == RcvSeq(subscribers_[o])
                new == RcvSeq(subscribers_'[o])
            IN  IF /\ busRes'.op \in {"subscribe", "subscribeByName"}
                   /\ busRes'.result = "OK"
                   /\ busRes'.topic = o
                THEN new = Append(old, busRes'.rcv)
                ELSE IF /\ busRes'.op = "unsubscribe"
                        /\ busRes'.result = "OK"
                        /\ busRes'.topic = o
                THEN /\ Elems(new) = Elems(old) \ {busRes'.rcv}
                     /\ Len(new) = Len(old) - 1
                     /\ \A a, b \in Elems(new) : Before(new, a, b) <=> Before(old, a, b)
                ELSE new = old
       /\ notifyFrame.pc = "copy" /\ notifyFrame'.pc = "send" =>
            notifyFrame'.subs_copy = subscribers_[notifyFrame.topic]
       /\ notifyFrame.pc = "send" /\ busRes'.op = "notify" =>
            busRes'.log = RcvSeq(notifyFrame.subs_copy)]_vars

\* A notify() that began with three subscribers, saw one of them unsubscribe
\* before its copy, and returned after sending to the other two
C23_Witness ==
    /\ busRes.op = "notify"
    /\ Cardinality(busRes.startSubs) = 3
    /\ Cardinality(busRes.touched) = 1
    /\ Len(busRes.log) = 2
    /\ busRes.log[1] # busRes.log[2]

\* ---------------------------------------------------------------------------
\* topicId(name) over the life of the registry (BusSpec)
\* ---------------------------------------------------------------------------

\* C24, as stated: whatever bus operation is executed, topicId(A) returns
\* after it what it returned before it, for every name A.
C24_TopicIdStable ==
    [][\A name \in Names : topicId(name)' = topicId(name)]_vars

\* C24, amended: topicId(A) returns after a bus operation what it returned
\* before it, unless the operation is the registerTopic that put A's
\* identifier into the registry: then it returned NONE (0) before and returns
\* fnv1a32(A) after, and no later operation changes that.
C24_TopicIdStableOnceRegistered ==
    [][\A name \in Names :
         \/ topicId(name)' = topicId(name)
         \/ /\ busRes'.op = "registerTopic"
            /\ busRes'.result = "OK"
            /\ fnv1a32(name) \notin DOMAIN topics_
            /\ fnv1a32(name) \in DOMAIN topics_'
            /\ topicId(name) = INVALID_TOPIC_ID
            /\ topicId(name)' = fnv1a32(name)]_vars

\* A name that resolves to its identifier after a second topic was
\* registered and a subscriber was added and removed again, next to a name
\* that was never registered
C24_Witness ==
    /\ topicId(NameT) = fnv1a32(NameT)
    /\ topicId(NameT) # INVALID_TOPIC_ID
    /\ topicId(NameX) = INVALID_TOPIC_ID
    /\ fnv1a32(NameZ) \in DOMAIN topics_
    /\ busRes.op = "unsubscribe"
    /\ busRes.result = "OK"

\* ---------------------------------------------------------------------------
\* Locking of the registry and of the subscriber lists (LockSpec)
\* ---------------------------------------------------------------------------

\* Task t waits for a subscriber mutex that will not be given up: it holds
\* the mutex itself, or the holder is not in the section the mutex guards
StuckOnSubs(t) ==
    /\ InCall(t)
    /\ Top(t).pc = "lock_subs"
    /\ LET h == subs_mtx_[Top(t).topic] IN
       /\ h # Free
       /\ h = t \/ ~InCall(h) \/ Top(h).pc # "subs"

\* The same for the registry mutex
StuckOnMap(t) ==
    /\ InCall(t)
    /\ Top(t).pc \in {"lock_name", "lock_map"}
    /\ mutex_ # Free
    /\ mutex_ = t \/ ~InCall(mutex_) \/ Top(mutex_).pc \notin {"name", "map"}

\* C25: a task whose notify() has made its copy and is at a send of its loop
\* does not hold the topic's subscriber mutex, so every receiver.send is
\* called with the mutex given up; and a task that waits for a subscriber
\* mutex (in a subscribe or unsubscribe of another task, or in one made from
\* inside a send) waits for a task that is inside the guarded section and
\* leaves it without waiting for anything: no deadlock.
C25_NoSendUnderLock ==
    \A t \in Threads :
        /\ (InCall(t) /\ Top(t).op = "notify" /\ Top(t).pc = "send") =>
              subs_mtx_[Top(t).topic] # t
        /\ ~StuckOnSubs(t)

\* A subscribe made from inside a receiver's send, during the owner's
\* notify(), has returned OK while the notify() is still in its loop
C25_Witness ==
    /\ lockRes.thread = Owner
    /\ lockRes.nested
    /\ lockRes.op = "subscribe"
    /\ lockRes.result = "OK"
    /\ InCall(Owner)
    /\ Top(Owner).op = "notify"
    /\ Top(Owner).pc = "send"

\* C26: a task that holds the registry mutex holds no subscriber mutex and
\* is in a registry section (a lookup or an insertion), not waiting for or
\* inside a subscriber-list section; and a task that waits for the registry
\* mutex waits for a task that is in such a section and leaves it without
\* waiting for anything: the two lock levels do not deadlock.
C26_RegistryLockNotNested ==
    \A t \in Threads :
        /\ mutex_ = t =>
              /\ \A o \in TopicObjs : subs_mtx_[o] # t
              /\ InCall(t)
              /\ Top(t).pc \in {"name", "map"}
        /\ ~StuckOnMap(t)

\* A registry lookup of one task holds mutex_ while the other task is inside
\* addSubscriber or removeSubscriber, holding the topic's subs_mtx_
C26_Witness ==
    \E t, u \in Threads :
        /\ t # u
        /\ mutex_ = t
        /\ Top(t).pc = "map"
        /\ Top(t).op \in {"subscribe", "unsubscribe", "getTopicInfo"}
        /\ InCall(u)
        /\ Top(u).pc = "subs"
        /\ Top(u).op \in {"subscribe", "unsubscribe"}
        /\ subs_mtx_[Top(u).topic] = u

\* C27: every read or write of a subscriber list is made by a task that
\* holds the topic's subscriber mutex, and so while no other task is inside
\* addSubscriber or removeSubscriber of that topic.
C27_ListAccessUnderLock ==
    access.kind # "none" => access.locked /\ ~access.racing

\* ---------------------------------------------------------------------------
\* Two names with one hash (AliasSpec)
\* ---------------------------------------------------------------------------

\* The name given to a by-name call is not that of the topic registered under
\* its hash
Aliased(name) ==
    /\ fnv1a32(name) \in DOMAIN topics_
    /\ getName(topics_[fnv1a32(name)]) # name

\* C31: "altarage" and "zinke" are distinct names with one hash.  Once a
\* topic is registered under one of them, registering a topic of the other
\* name returns TOPIC_EXISTS and leaves the registry as it is; topicId of
\* either name is the shared id, which finds the first topic; subscribe by
\* the other name subscribes the receiver to the first topic and returns OK
\* or SUB_EXISTS; requestWrite by the other name is checked against and
\* written to the first topic and returns what a call by the first name
\* returns (OK, TYPE_MISMATCH or WRITE_FAILED), never TOPIC_NOT_FOUND.
C31_CollisionAliases ==
    /\ [](/\ NameA # NameK
          /\ fnv1a32(NameA) = fnv1a32(NameK)
          /\ \A name \in AliasNames :
                fnv1a32(name) \in DOMAIN topics_ =>
                   /\ topicId(name) = fnv1a32(name)
                   /\ findTopic(topicId(name)) = topics_[fnv1a32(NameA)])
    /\ [][/\ (/\ busRes'.op = "registerTopic"
              /\ busRes'.topic # Null
              /\ Aliased(getName(busRes'.topic))) =>
                 /\ busRes'.result = "TOPIC_EXISTS"
                 /\ busRes'.out = <<>>
                 /\ topics_' = topics_
          /\ (busRes'.op = "subscribeByName" /\ Aliased(busRes'.arg)) =>
                LET first == topics_[fnv1a32(busRes'.arg)] IN
                /\ busRes'.topic = first
                /\ busRes'.result =
                      IF busRes'.rcv \in SubscribedTo(first) THEN "SUB_EXISTS" ELSE "OK"
                /\ busRes'.rcv \in {subscribers_'[first][i].q :
                                       i \in 1 .. Len(subscribers_'[first])}
                /\ \A o \in Objs \ {first} : subscribers_'[o] = subscribers_[o]
          /\ (busRes'.op = "requestWriteByName" /\ Aliased(busRes'.arg)) =>
                LET first == topics_[fnv1a32(busRes'.arg)] IN
                /\ busRes'.topic = first
                /\ busRes'.result \in {"OK", "TYPE_MISMATCH", "WRITE_FAILED"}
                /\ (busRes'.result = "TYPE_MISMATCH") =
                      (getTypeId(busRes'.U) # typeId(first))
                /\ \A o \in Objs \ {first} : data'[o] = data[o]]_vars

\* A write requested for "zinke" was accepted by the topic named "altarage"
\* and stored there
C31_Witness ==
    /\ busRes.op = "requestWriteByName"
    /\ busRes.arg = NameK
    /\ busRes.topic = 4
    /\ getName(busRes.topic) = NameA
    /\ busRes.result = "OK"
    /\ data[4] = 1

\* ---------------------------------------------------------------------------
\* Sends of a notify() in progress and unsubscribe (LockSpec)
\* ---------------------------------------------------------------------------

\* The step is a send of task t's notify() to receiver r
SendsTo(t, r) ==
    /\ InCall(t)
    /\ Top(t).op = "notify"
    /\ Top(t).pc = "send"
    /\ Top(t).i <= Len(Top(t).subs_copy)
    /\ Top(t).subs_copy[Top(t).i].q = r
    /\ Len(stack'[t]) >= Len(stack[t])
    /\ stack'[t][Len(stack[t])].i = Top(t).i + 1

\* C32: a notify() sends only to receivers that are subscribed to its topic
\* when the send is made: once unsubscribe(topic, R) has returned OK, which
\* takes R out of the list, no send goes to R, not even from a notify() that
\* had begun before.
C32_NoSendAfterUnsubscribe ==
    [][\A t \in Threads, r \in Receivers :
          SendsTo(t, r) => r \in SubscribedTo(Top(t).topic)]_vars

\* ---------------------------------------------------------------------------
\* Framing of the scheduler's requests (FrameSpec)
\* ---------------------------------------------------------------------------

\* C34: the length schedule() and cancel() transmit covers the command and
\* the whole entry pointer as they lie in the QMsg object, it is not above
\* MaxMsgSize, and send does not refuse the request for its length.
C34_RequestsIntact ==
    frameRes.op \in {"schedule", "cancel"} =>
        /\ frameRes.len >= offsetofSMsgPtr + sizeofPtr
        /\ SubSeq(frameRes.obj, offsetofSMsgPtr + 1, offsetofSMsgPtr + sizeofPtr)
              = PtrBytes(frameRes.h)
        /\ frameRes.len <= MaxMsgSize
        /\ ~frameRes.refused

\* ---------------------------------------------------------------------------
\* The timeout cadence of taskLoop (LoopSpec)
\* ---------------------------------------------------------------------------

\* The iteration just made ran a handler that found the finite timeout p and
\* left it as it was
KeptPeriod == /\ loopRes.branch \in {"message", "timeout"}
              /\ loopRes.p # TASK_WAIT_FOREVER
              /\ loopRes.q = loopRes.p

\* C36: for a finite receive timeout p that the handler leaves unchanged,
\* handling a message does not move next_deadline, and after handleTimeout
\* next_deadline has advanced by k >= 1 whole periods p and is later than
\* the time the handler finished.
C36_DriftFreeCadence ==
    KeptPeriod =>
        /\ loop.pc = "loop"
        /\ loopRes.branch = "message" => loop.next_deadline = loopRes.deadline
        /\ loopRes.branch = "timeout" =>
              /\ \E k \in 1 .. MaxClock :
                    loop.next_deadline = loopRes.deadline + k * to_ticks(loopRes.p)
              /\ loop.next_deadline > loopRes.after

\* ---------------------------------------------------------------------------
\* RingBuffer against a bounded FIFO queue (RingSpec)
\* ---------------------------------------------------------------------------

\* C37: after any sequence of push, push_overwrite, pop, pop_n and reset the
\* size is between 0 and the capacity, the contents read oldest first are
\* those of the reference queue, and the last call returned what the
\* reference returns: push on a full buffer false, pop on an empty buffer
\* false, pop_n the elements of min(size, max) successive pops.
C37_BoundedFifo ==
    /\ 0 <= _count /\ _count <= _capacity
    /\ Contents = fifo
    /\ ringRes.op \in {"push", "pop", "pop_n"} =>
          /\ ringRes.ret = ringRes.refRet
          /\ ringRes.out = ringRes.refOut

\* A pop_n on a full buffer that read across the end of the storage: the
\* oldest element from the last index, the next from index 0
C37_Witness ==
    /\ ringRes.op = "pop_n"
    /\ ringRes.ret = 2
    /\ ringRes.out = <<1, 2>>
    /\ _head = 2
    /\ _count = 1
    /\ _data[0] = 2 /\ _data[_capacity - 1] = 1

\* ---------------------------------------------------------------------------
\* Debounced rules (DebounceSpec) and the Envelope (EnvelopeSpec)
\* ---------------------------------------------------------------------------

\* C38: the stable output of a rule is its violating flag; it switches to
\* violation only at a step whose condition has been true at every step
\* since it first became true, at least enter_delay ago, and back to normal
\* only when the condition has been false at every step for at least
\* exit_delay; a pending timer runs from the start of the present run of
\* equal conditions, so one opposite sample restarts it; enter_pending and
\* exit_pending are never both set.
C38_DebouncedSwitch ==
    LET r == rules[0] IN
    r # NoRule =>
        /\ ~(r.enter_pending /\ r.exit_pending)
        /\ r.enter_pending =>
              run[0].cond /\ r.enter_since = run[0].since % TimeWrap
        /\ r.exit_pending =>
              ~run[0].cond /\ r.exit_since = run[0].since % TimeWrap
        /\ envRes.op = "call" =>
              /\ envRes.out = r.violating
              /\ (~envRes.was /\ r.violating) =>
                    run[0].cond /\ envNow - run[0].since >= r.enter_delay
              /\ (envRes.was /\ ~r.violating) =>
                    ~run[0].cond /\ envNow - run[0].since >= r.exit_delay

\* A switch to violation after the time counter has wrapped: the condition
\* became true at time 3 and the enter delay of 2 has passed at time 5
C38_Witness ==
    /\ rules[0] # NoRule
    /\ envRes.op = "call" /\ ~envRes.was /\ rules[0].violating
    /\ rules[0].enter_delay = 2
    /\ run[0].since = 3 /\ envNow = 5

\* C39: with the default bounds policy and zero delays a rule built by
\* NORMAL_BELOW(th) reports violation exactly for v > th and one built by
\* NORMAL_ABOVE(th) exactly for v < th: a value equal to th is normal.
C39_ThresholdIsNormal ==
    LET r == rules[0] IN
    (/\ envRes.op = "call"
     /\ ~r.inclusive /\ r.enter_delay = 0 /\ r.exit_delay = 0) =>
        (envRes.out <=> IF r.kind = "Above" THEN envRes.v > r.th
                        ELSE envRes.v < r.th)

\* The bound rules whose condition has held at every sample for at least
\* their enter_delay
Due == {i \in RuleIdx : /\ rules[i] # NoRule
                        /\ held[i].seen /\ held[i].cond
                        /\ envNow - held[i].since >= rules[i].enter_delay}

\* C40: an update advances every bound rule with the sample, and its result
\* is Violation with the lowest index of a bound rule whose condition has
\* held for at least its enter_delay, or Normal with index 0xFF when there
\* is none.
C40_EveryRuleAdvanced ==
    envRes.op = "update" =>
        /\ envRes.called = {i \in RuleIdx : rules[i] # NoRule}
        /\ envRes.result =
              IF Due = {} THEN [state |-> "Normal", index |-> NO_VIOLATION]
              ELSE [state |-> "Violation",
                    index |-> CHOOSE i \in Due : \A j \in Due : i <= j]
=============================================================================
